---- MODULE Spec2Model ----
(***************************************************************************)
(* Trim-face engine of the Curves workbench: coverage check, curve         *)
(* extension, face split, region selection, the dialog that drives them    *)
(* and the preview overlay with its split cache.                           *)
(*                                                                         *)
(* Geometry is abstracted to a small integer (u,v) grid.  A point of a     *)
(* curve is represented by the outcome of projecting it on the face.       *)
(***************************************************************************)
EXTENDS Integers, Sequences, FiniteSets, TLC

\* ------------------------------------------------------------------ bounds
GridMax == 4          \* projected (u,v) range over the even numbers 0..2*GridMax
MaxPts == 3           \* distinct sampled points of one curve
MaxCovCurves == 2     \* curves handed to one coverage check
MaxCurves == 2        \* trimming curves selected in the dialog
MaxTimers == 1        \* QTimer.singleShot calls pending at one time
MaxTrims == 1         \* calls of execute_trim followed in one session
MaxPre == 1           \* edges already selected when the dialog opens
MaxSamples == 2       \* sample points of the curve being projected

\* --------------------------------------------------------------- constants
PosInf == 1000        \* float('inf') seed of the running minimum

NegInf == 0 - PosInf

\* ------------------------------------------------------------- the kernel
\* ParameterRange of a face: <<u_min, u_max, v_min, v_max>>
ParameterRange(face) ==
    IF face = "F1" THEN <<2, 6, 2, 6>> ELSE <<4, 8, 2, 6>>

Faces == {"F1", "F2"}

\* Outcome of projecting one point of a curve on the face along the direction
NoProjection == [ok |-> FALSE, u |-> 0, v |-> 0]

Outcomes ==
    {NoProjection} \cup
    {[ok |-> TRUE, u |-> 2 * a, v |-> 2 * b] : a \in 0..GridMax, b \in 0..GridMax}

Min2(a, b) == IF a < b THEN a ELSE b

Max2(a, b) == IF a > b THEN a ELSE b

\* --------------------------------------------- CoverageChecker (projector)
\* sample_points: start, end, the parametric samples (first = start,
\* last = end) and, when discretize succeeds, the discretized points.
sample_points(g) ==
    <<g.pts[1], g.pts[Len(g.pts)]>> \o g.pts \o
        (IF g.discretizeOk THEN g.pts ELSE <<>>)

EmptyAcc ==
    [min_u |-> PosInf, max_u |-> NegInf, min_v |-> PosInf, max_v |-> NegInf,
     start |-> <<>>, end |-> <<>>, successful |-> 0, failed |-> 0]

\* one pass of the loop "for point in sample_points"
ProjectStep(acc, o) ==
    IF o.ok
    THEN [acc EXCEPT
            !.start = IF acc.successful = 0 THEN <<o.u, o.v>> ELSE @,
            !.end = IF acc.successful = 1 THEN <<o.u, o.v>> ELSE @,
            !.min_u = Min2(@, o.u), !.max_u = Max2(@, o.u),
            !.min_v = Min2(@, o.v), !.max_v = Max2(@, o.v),
            !.successful = @ + 1]
    ELSE [acc EXCEPT !.failed = @ + 1]

RECURSIVE ProjectLoop(_, _, _)
ProjectLoop(samples, i, acc) ==
    IF i > Len(samples) THEN acc
    ELSE ProjectLoop(samples, i + 1, ProjectStep(acc, samples[i]))

NoBounds == [some |-> FALSE]

\* _project_curve_to_face_uv: the bounds dict, or None
project_curve_to_face_uv(g) ==
    IF g.mode = "proj_raises" THEN NoBounds
    ELSE LET acc == ProjectLoop(sample_points(g), 1, EmptyAcc) IN
         IF acc.successful < 2 THEN NoBounds
         ELSE IF acc.start = <<>> \/ acc.end = <<>> THEN NoBounds
         ELSE [some |-> TRUE,
               start_u |-> acc.start[1], start_v |-> acc.start[2],
               end_u |-> acc.end[1], end_v |-> acc.end[2],
               min_u |-> acc.min_u, max_u |-> acc.max_u,
               min_v |-> acc.min_v, max_v |-> acc.max_v]

\* ------------------------------------------ CoverageChecker (adequacy rule)
start_outside(b, r) ==
    b.start_u < r[1] \/ b.start_u > r[2] \/ b.start_v < r[3] \/ b.start_v > r[4]

end_outside(b, r) ==
    b.end_u < r[1] \/ b.end_u > r[2] \/ b.end_v < r[3] \/ b.end_v > r[4]

has_interior(b, r) ==
    b.min_u < r[2] /\ b.max_u > r[1] /\ b.min_v < r[4] /\ b.max_v > r[3]

is_adequate(b, r) == start_outside(b, r) /\ end_outside(b, r) /\ has_interior(b, r)

\* What the body of "for obj_ref, subname in trimming_curves" does with one
\* curve: the message it logs.
CurveMessage(g, r) ==
    LET b == project_curve_to_face_uv(g) IN
    IF ~b.some THEN "skipped"
    ELSE IF g.mode = "check_raises" THEN "error"
    ELSE IF is_adequate(b, r) THEN "adequate" ELSE "extension"

RECURSIVE CoverageLoop(_, _, _, _)
CoverageLoop(curves, i, r, log) ==
    IF i > Len(curves)
    THEN [ret |-> FALSE, log |-> log, why |-> "all_adequate"]
    ELSE IF curves[i].mode = "elem_raises"
    THEN [ret |-> FALSE, log |-> log, why |-> "exception"]
    ELSE LET m == CurveMessage(curves[i], r) IN
         IF m = "extension"
         THEN [ret |-> TRUE, log |-> Append(log, m), why |-> "extension"]
         ELSE CoverageLoop(curves, i + 1, r, Append(log, m))

\* CoverageChecker.check_curve_coverage: ret is the returned needs_extension
check_curve_coverage(curves, face, faceOk) ==
    IF curves = <<>> \/ face = "none"
    THEN [ret |-> FALSE, log |-> <<>>, why |-> "nothing_to_check"]
    ELSE IF ~faceOk
    THEN [ret |-> FALSE, log |-> <<>>, why |-> "exception"]
    ELSE CoverageLoop(curves, 1, ParameterRange(face), <<>>)

\* ------------------------------------------------ the kernel, continued
UV(a, b) == [ok |-> TRUE, u |-> a, v |-> b]

Curves == {"c1", "c2"}

\* the faces of the document the dialog is opened on
DocumentFaces == {"F1"}

\* The points the user can pick: pB lies on both faces, pFar on none.
PickPoints == {"pB", "pFar"}

\* Surface.parameter of a 3-D point (CenterOfMass is the point "centre")
SurfaceParameter(face, p) ==
    LET r == ParameterRange(face) IN
    CASE p = "pA" -> <<3, 3>>
      [] p = "pB" -> <<5, 5>>
      [] p = "pFar" -> <<9, 9>>
      [] OTHER -> <<(r[1] + r[2]) \div 2, (r[3] + r[4]) \div 2>>

ViewDirection == "dview"

\* face_shape.normalAt: the faces are planar, one normal everywhere
normalAt(face, uv) == "n"

\* BoundBox diagonal of a face
FaceDiagonal(face) == IF face = "F1" THEN 6 ELSE 8

\* The samples of a curve of the document projected on a face along a
\* direction: c1 runs across F1, c2 is a short curve inside it.
WorldPts(curve, face, dir) ==
    IF curve = "c1"
    THEN IF face = "F1" /\ dir = "dview"
         THEN <<UV(2, 4), UV(4, 4), UV(8, 4)>>
         ELSE <<UV(0, 4), UV(4, 4), UV(8, 4)>>
    ELSE IF dir = "dx"
         THEN <<NoProjection, NoProjection>>
         ELSE <<UV(4, 3), UV(4, 5)>>

WorldGeom(curve, face, dir) ==
    [pts |-> WorldPts(curve, face, dir), discretizeOk |-> TRUE, mode |-> "ok"]

\* Length by which a curve must be extended at each end for its cutting
\* tool to cross the whole face
Reach(curve, face) == IF curve = "c1" /\ face = "F1" THEN 0 ELSE 2

\* A tool is an edge used for cutting: the curve it comes from and the
\* length added at each end.
CutsFace(tool, face) == tool.ext >= Reach(tool.curve, face)

Orientation(curve, dir) ==
    IF (curve = "c1") = (dir # "dview") THEN "h" ELSE "v"

Rect(a, b, c, d) == [u0 |-> a, u1 |-> b, v0 |-> c, v1 |-> d]

\* The sub-faces of a face cut along its horizontal and/or vertical middle
\* line, in the order the kernel returns them.
SubFaces(r, h, v) ==
    LET mu == (r[1] + r[2]) \div 2
        mv == (r[3] + r[4]) \div 2
    IN  IF h /\ v
        THEN <<Rect(r[1], mu, r[3], mv), Rect(mu, r[2], r[3], mv),
               Rect(r[1], mu, mv, r[4]), Rect(mu, r[2], mv, r[4])>>
        ELSE IF h THEN <<Rect(r[1], r[2], r[3], mv), Rect(r[1], r[2], mv, r[4])>>
        ELSE IF v THEN <<Rect(r[1], mu, r[3], r[4]), Rect(mu, r[2], r[3], r[4])>>
        ELSE <<Rect(r[1], r[2], r[3], r[4])>>

\* splitAPI.slice(face, cuttool, "Split", 1e-6).Faces
slice(face, tools, dir) ==
    LET cuts == {i \in DOMAIN tools : CutsFace(tools[i], face)} IN
    SubFaces(ParameterRange(face),
             \E i \in cuts : Orientation(tools[i].curve, dir) = "h",
             \E i \in cuts : Orientation(tools[i].curve, dir) = "v")

\* Face.isPartOfDomain(u, v)
isPartOfDomain(f, u, v) == f.u0 <= u /\ u <= f.u1 /\ f.v0 <= v /\ v <= f.v1

\* ------------------------------------------------- TrimFaceObject.execute
\* "for f in bf.Faces: if f.isPartOfDomain(u, v)": index of the face taken,
\* 0 when the loop ends without a match
\* a scan that settles on the first sub-face whatever the point
ScanFacesFirstFace(faces, i, u, v) == IF i > Len(faces) THEN 0 ELSE i

RECURSIVE ScanFaces(_, _, _, _)
ScanFaces(faces, i, u, v) ==
    IF i > Len(faces) THEN 0
    ELSE IF isPartOfDomain(faces[i], u, v) THEN i
    ELSE ScanFaces(faces, i + 1, u, v)

\* an unset direction (None, or the null vector of a new property)
NoVector == "none"

\* an unset PickedPoint
NoPoint == <<>>

\* TrimFaceObject.getVector
getVector(obj) ==
    IF obj.Direction # NoVector THEN obj.Direction ELSE "minus_z"

\* TrimFaceObject.execute: the object after the recompute
TrimFaceObject_execute(obj) ==
    IF obj.Tool = <<>> \/ obj.PickedPoint = NoPoint \/ obj.Face = "none"
       \/ obj.Direction = NoVector
    THEN [obj EXCEPT !.executed = "returned_early"]
    ELSE LET bf == slice(obj.Face, obj.Tool, getVector(obj))
             k == ScanFaces(bf, 1, obj.PickedPoint[1], obj.PickedPoint[2])
         IN  [obj EXCEPT !.faces = bf,
                         !.Shape = IF k = 0 THEN @ ELSE <<bf[k]>>,
                         !.executed = IF k = 0 THEN "no_match" ELSE "shape_set"]

\* --------------------------------------------------------- TrimFaceLogic
DefaultExtensionDistance == 10

\* float(distance) of the text of the distance field
ParsesAsFloat(text) == text = "5"

FloatOf(text) == IF text = "5" THEN 5 ELSE 0

\* set_extension_distance: the new extension_distance
set_extension_distance(text) ==
    IF ParsesAsFloat(text) THEN FloatOf(text) ELSE DefaultExtensionDistance

\* _extend_edge_to_boundary / _extend_edge_by_distance: the extension applied
\* at each end; the original edge (extension 0) when curveExtend raises
extend_edge_to_boundary(face, fails) ==
    IF fails THEN 0 ELSE FaceDiagonal(face) \div 2

extend_edge_by_distance(distance, fails) ==
    IF fails THEN 0 ELSE distance

\* One pass of the loop of get_extended_curves: the entry appended.  obj is
\* "extended" for a new '<name>_Extended' document object, "original" for
\* the curve itself.
ExtendedEntry(curve, mode, distance, face, extFails, addFails) ==
    LET e == IF mode = "boundary" THEN extend_edge_to_boundary(face, extFails)
             ELSE IF mode = "custom" THEN extend_edge_by_distance(distance, extFails)
             ELSE 0
    IN  IF addFails THEN [curve |-> curve, ext |-> 0, obj |-> "original"]
        ELSE [curve |-> curve, ext |-> e, obj |-> "extended"]

OriginalEntry(curve) == [curve |-> curve, ext |-> 0, obj |-> "original"]

\* get_extended_curves returning early only when both conditions hold
get_extended_curves_and(curves, mode, needs, distance, face, extFail, addFail) ==
    IF mode = "none" /\ ~needs
    THEN [i \in DOMAIN curves |-> OriginalEntry(curves[i])]
    ELSE [i \in DOMAIN curves |->
            ExtendedEntry(curves[i], mode, distance, face, i \in extFail, i \in addFail)]

\* get_extended_curves leaving out the curves whose extension failed
get_extended_curves_drop(curves, mode, needs, distance, face, extFail, addFail) ==
    IF mode = "none" \/ ~needs
    THEN [i \in DOMAIN curves |-> OriginalEntry(curves[i])]
    ELSE LET kept == SelectSeq([i \in DOMAIN curves |-> i],
                               LAMBDA i : i \notin extFail \cup addFail)
         IN  [k \in DOMAIN kept |->
                ExtendedEntry(curves[kept[k]], mode, distance, face, FALSE, FALSE)]

\* get_extended_curves: extFail and addFail are the positions at which
\* curveExtend, resp. the creation of the document object, raises
get_extended_curves(curves, mode, needs, distance, face, extFail, addFail) ==
    IF mode = "none" \/ ~needs
    THEN [i \in DOMAIN curves |-> OriginalEntry(curves[i])]
    ELSE [i \in DOMAIN curves |->
            ExtendedEntry(curves[i], mode, distance, face, i \in extFail, i \in addFail)]

\* ------------------------------------------------- coverage check, inputs

\* the outcomes of the samples of one curve, n distinct points at most
PtsSeqs(n) == UNION {[1..k -> Outcomes] : k \in 2..n}

CurveGeoms(n) ==
    {[pts |-> p, discretizeOk |-> d, mode |-> "ok"] : p \in PtsSeqs(n), d \in BOOLEAN}

\* a crossing curve, a curve no sample of which projects, and curves for
\* which getElement, the projector or the check itself raises
RepGeoms ==
    {[pts |-> <<UV(0, 4), UV(8, 4)>>, discretizeOk |-> TRUE, mode |-> "ok"],
     [pts |-> <<NoProjection, NoProjection>>, discretizeOk |-> TRUE, mode |-> "ok"],
     [pts |-> <<UV(0, 4), UV(8, 4)>>, discretizeOk |-> TRUE, mode |-> "elem_raises"],
     [pts |-> <<UV(0, 4), UV(8, 4)>>, discretizeOk |-> TRUE, mode |-> "proj_raises"],
     [pts |-> <<UV(0, 4), UV(8, 4)>>, discretizeOk |-> TRUE, mode |-> "check_raises"]}

RepSeqs(m) == UNION {[1..k -> RepGeoms] : k \in 0..m}

CovCurveLists(n, m) ==
    {<<g>> : g \in CurveGeoms(n)} \cup RepSeqs(m) \cup
    (IF m >= 2
     THEN {<<r, g>> : r \in RepGeoms, g \in {x \in CurveGeoms(n) : x.discretizeOk}}
     ELSE {})

CovInputs(n, m) ==
    {[curves |-> c, face |-> f, faceOk |-> TRUE] : c \in CovCurveLists(n, m), f \in Faces}
    \cup {[curves |-> c, face |-> f, faceOk |-> k] :
             c \in RepSeqs(m), f \in Faces \cup {"none"}, k \in BOOLEAN}

\* ------------------------------------------------------------- the state
VARIABLES
    cv_in, cv_out,              \* one call of CoverageChecker.check_curve_coverage
    trimming_curves, face_object, direction, trim_point, use_auto_direction,
    extension_mode, extension_distance, needs_extension,      \* TrimFaceLogic
    curve_list, workflow_stage, selection_gate, selection_observer,
    dir_radio, vec_field, ext_radio, ext_group_visible, dist_text,
    apply_enabled, dialog_open,                     \* TrimFaceDialogTaskPanel
    timers, sel_picked,         \* pending QTimer.singleShot calls, GUI selection
    document,                   \* objects added to the active document
    checked_for, trim_calls, last_trim,      \* history of the calls made
    root_separator, scene_graph_added, is_active,
    cached_keep_mesh, cached_remove_mesh, last_face_hash, last_curves_hash,
    cached_split_faces, last_face_shape,               \* TrimPreviewOverlay
    split_for, cleaned, last_preview,     \* history of the previews computed
    hover,                      \* HoverPointCallback and the last mouse move
    call,                       \* one call of a function, its arguments and result
    proj,                       \* _project_curve_to_face_uv: where the loop over the samples is
    checker,                    \* CoverageChecker: debug, visualize, vis_root
    gizmo,                      \* VectorGizmo: direction and the visibility switch
    ui,                         \* VectorGizmoUI: the X/Y/Z fields and the helper
    session,                    \* the dialog's hover callback and the scene's callback nodes
    overlay                     \* TrimPreviewOverlay: its root node and the scene's overlay nodes

covVars == <<cv_in, cv_out>>

logicVars ==
    <<trimming_curves, face_object, direction, trim_point, use_auto_direction,
      extension_mode, extension_distance, needs_extension>>

panelVars ==
    <<curve_list, workflow_stage, selection_gate, selection_observer,
      dir_radio, vec_field, ext_radio, ext_group_visible, dist_text,
      apply_enabled, dialog_open>>

guiVars == <<timers, sel_picked>>

histVars == <<document, checked_for, trim_calls, last_trim>>

trimVars == <<logicVars, panelVars, guiVars, histVars>>

ovVars ==
    <<root_separator, scene_graph_added, is_active, cached_keep_mesh,
      cached_remove_mesh, last_face_hash, last_curves_hash,
      cached_split_faces, last_face_shape, split_for, cleaned, last_preview>>

auxVars == <<ui, session, overlay>>

extVars == <<hover, call, proj, checker, gizmo, auxVars>>

vars == <<covVars, trimVars, ovVars, extVars>>

\* ------------------------------------------------ TrimFaceLogic, construction
NeverChecked == [done |-> FALSE, curves |-> <<>>, face |-> "none", dir |-> "none"]

NoTrimObject ==
    [Face |-> "none", Tool |-> <<>>, Direction |-> NoVector, PickedPoint |-> NoPoint,
     faces |-> <<>>, Shape |-> <<>>, executed |-> "never"]

NoTrim ==
    [called |-> FALSE, via |-> "", raised |-> FALSE, msg |-> "",
     curves |-> <<>>, face |-> "none", point |-> "none", needs |-> FALSE,
     mode |-> "", distance |-> 0, radio |-> "", text |-> "",
     dir_radio |-> "", vec |-> "",
     checked |-> NeverChecked, direction |-> NoVector,
     extFail |-> {}, addFail |-> {}, entries |-> <<>>, created |-> <<>>,
     obj |-> NoTrimObject]

LogicInit ==
    /\ trimming_curves = <<>>
    /\ face_object = "none"
    /\ direction = NoVector
    /\ trim_point = "none"
    /\ use_auto_direction = TRUE
    /\ extension_mode = "boundary"
    /\ extension_distance = DefaultExtensionDistance
    /\ needs_extension = FALSE

\* The dialog before it is opened: the idle value of its state in the
\* specifications that exercise one component alone.
TrimIdle ==
    /\ LogicInit
    /\ curve_list = <<>>
    /\ workflow_stage = "edges"
    /\ selection_gate = "none"
    /\ selection_observer = "none"
    /\ dir_radio = "normal"
    /\ vec_field = "zero"
    /\ ext_radio = "boundary"
    /\ ext_group_visible = FALSE
    /\ dist_text = ""
    /\ apply_enabled = FALSE
    /\ dialog_open = FALSE
    /\ timers = <<>>
    /\ sel_picked = "none"
    /\ document = <<>>
    /\ checked_for = NeverChecked
    /\ trim_calls = 0
    /\ last_trim = NoTrim

\* --------------------------------------------- TrimPreviewOverlay, __init__
NoSplit == [some |-> FALSE, faces |-> <<>>]

NoKey == [face |-> "none", curves |-> <<>>, dir |-> NoVector]

NoPreview ==
    [shown |-> FALSE, face |-> "none", curves |-> <<>>, dir |-> NoVector,
     point |-> "none", sliced |-> FALSE, use_cached |-> FALSE,
     after_cleanup |-> FALSE, key |-> NoKey, bf |-> <<>>,
     keep_mesh |-> <<>>, remove_mesh |-> <<>>]

OverlayInit ==
    /\ root_separator = FALSE
    /\ scene_graph_added = FALSE
    /\ is_active = FALSE
    /\ cached_keep_mesh = <<>>
    /\ cached_remove_mesh = <<>>
    /\ last_face_hash = "none"
    /\ last_curves_hash = <<>>
    /\ cached_split_faces = NoSplit
    /\ last_face_shape = "none"
    /\ split_for = NoKey
    /\ cleaned = FALSE
    /\ last_preview = NoPreview

\* ------------------------------------------- HoverPointCallback, __init__
\* the callback before install(), no mouse move seen
NoHover == [installed |-> FALSE, moved |-> FALSE, cursor |-> "none"]

\* the objects outside the component a specification exercises
NoCall == [done |-> FALSE]

\* the projector when it is not running
NoProj ==
    [pc |-> "idle", n |-> 0, sample |-> 0, i |-> 0, iteration |-> 0, j |-> 0,
     dist |-> "none", best_uv |-> FALSE, how |-> "none", left |-> "none",
     result |-> "pending"]

\* CoverageChecker.__init__
NoChecker == [debug |-> TRUE, visualize |-> TRUE, vis_root |-> "none"]

NoDirection == [axis |-> "none", len |-> 0]

\* no VectorGizmo constructed yet
NoGizmo ==
    [built |-> FALSE, direction |-> NoDirection, whichChild |-> "none",
     is_dragging |-> FALSE,
     op |-> "none", vis_op |-> "none", was_visible |-> FALSE,
     arg |-> NoDirection, before |-> NoDirection, returned |-> NoDirection]

\* the text of the three fields: whether float() accepts it, and the vector read
NoText == [ok |-> TRUE, axis |-> "none", len |-> 0]

\* no VectorGizmoUI constructed yet
NoUI ==
    [built |-> FALSE, fields |-> NoText, smart_default_enabled |-> FALSE,
     op |-> "none", reentered |-> FALSE, notified |-> NoDirection]

\* no dialog followed for its hover callback
NoSession ==
    [open |-> FALSE, workflow_stage |-> "edges", curves |-> FALSE, face |-> FALSE,
     point |-> FALSE, checked |-> FALSE, hover_callback |-> 0, nodes |-> {},
     created |-> 0, op |-> "none"]

\* no overlay followed for its scene bookkeeping
NoOverlay ==
    [built |-> FALSE, root_separator |-> 0, scene_graph_added |-> FALSE,
     is_active |-> FALSE, nodes |-> {}, created |-> 0, view_failed |-> FALSE,
     op |-> "none"]

AuxIdle == ui = NoUI /\ session = NoSession /\ overlay = NoOverlay

ExtIdle ==
    hover = NoHover /\ call = NoCall /\ proj = NoProj /\ checker = NoChecker /\ gizmo = NoGizmo /\ AuxIdle

\* ------------------------------------------------- coverage check, harness
CovPending == [done |-> FALSE, ret |-> FALSE, log |-> <<>>, why |-> ""]

CovIdle == cv_in = [curves |-> <<>>, face |-> "none", faceOk |-> TRUE] /\ cv_out = CovPending

CovInit ==
    cv_in \in CovInputs(MaxPts, MaxCovCurves) /\ cv_out = CovPending /\ TrimIdle /\ OverlayInit
    /\ ExtIdle

\* one call of check_curve_coverage on the input drawn by CovInit
CheckCoverage ==
    /\ ~cv_out.done
    /\ LET r == check_curve_coverage(cv_in.curves, cv_in.face, cv_in.faceOk) IN
         cv_out' = [done |-> TRUE, ret |-> r.ret, log |-> r.log, why |-> r.why]
    /\ UNCHANGED <<cv_in, trimVars, ovVars, extVars>>

CovNext == CheckCoverage

SpecCoverage == CovInit /\ [][CovNext]_vars

\* ------------------------------------------------ TrimFaceLogic, operations
\* TrimFaceLogic.check_curve_coverage: the direction the projection uses
CoverageDirection(face, projection_direction) ==
    IF projection_direction # NoVector THEN projection_direction
    ELSE normalAt(face, SurfaceParameter(face, "centre"))

\* TrimFaceLogic.check_curve_coverage: the new needs_extension
logic_check_curve_coverage(curves, face, projection_direction) ==
    check_curve_coverage(
        [i \in DOMAIN curves |->
            WorldGeom(curves[i], face, CoverageDirection(face, projection_direction))],
        face, TRUE).ret

IsExtended(entry) == entry.obj = "extended"

\* the '<name>_Extended' objects get_extended_curves adds to the document
ExtendedObjects(entries) ==
    LET ext == SelectSeq(entries, IsExtended) IN
    [i \in DOMAIN ext |-> [name |-> "Extended", of |-> ext[i].curve]]

\* TrimFaceLogic.execute_trim.  kernelRaises: the kernel raises after the
\* curves were extended (face_shape = ...getElement(...)).
execute_trim(curves, face, dirv, auto, point, mode, needs, dist, extFail, addFail, kernelRaises) ==
    IF curves = <<>>
    THEN [raised |-> TRUE, msg |-> "No trimming curves selected",
          entries |-> <<>>, created |-> <<>>, obj |-> NoTrimObject]
    ELSE IF face = "none"
    THEN [raised |-> TRUE, msg |-> "No face selected",
          entries |-> <<>>, created |-> <<>>, obj |-> NoTrimObject]
    ELSE LET entries == get_extended_curves(curves, mode, needs, dist, face, extFail, addFail)
             created == <<[name |-> "TrimmedFace", of |-> face]>> \o ExtendedObjects(entries)
             ref == IF point # "none" THEN point ELSE "centre"
             uv == SurfaceParameter(face, ref)
             d == IF auto \/ dirv = NoVector THEN normalAt(face, uv) ELSE dirv
             obj0 == [NoTrimObject EXCEPT !.Face = face, !.Tool = entries]
         IN  IF kernelRaises
             THEN [raised |-> TRUE, msg |-> "Error executing trim",
                   entries |-> entries, created |-> created, obj |-> obj0]
             ELSE [raised |-> FALSE, msg |-> "Trim operation completed successfully",
                   entries |-> entries, created |-> created,
                   obj |-> TrimFaceObject_execute(
                              [obj0 EXCEPT !.Direction = d, !.PickedPoint = uv])]

\* -------------------------------------------- TrimFaceDialogTaskPanel, parts
DirRadios == {"normal", "view", "custom"}

VecFields == {"zero"}

ExtModes == {"none", "boundary", "custom"}

DistTexts == {"", "5", "abc"}

\* update_apply_button: the new enabled state of Apply
update_apply_button(items, face, point) ==
    Len(items) > 0 /\ face # "none" /\ point # "none"

\* check_and_show_extension_controls: projection_dir read from the radios
ProjectionDir(radio, vec) ==
    IF radio = "view" THEN ViewDirection
    ELSE IF radio = "custom" /\ vec = "dx" THEN "dx"
    ELSE NoVector

RemoveAt(seq, i) == SubSeq(seq, 1, i - 1) \o SubSeq(seq, i + 1, Len(seq))

\* "del self.trimming_curves[index]" alone: a negative index counts from the
\* end of the list
remove_trimming_curve_unguarded(curves, index) ==
    IF 0 <= index /\ index < Len(curves) THEN RemoveAt(curves, index + 1)
    ELSE IF index < 0 /\ 0 - index <= Len(curves) THEN RemoveAt(curves, Len(curves) + index + 1)
    ELSE curves

\* TrimFaceLogic.remove_trimming_curve, index counted from 0
remove_trimming_curve(curves, index) ==
    IF 0 <= index /\ index < Len(curves) THEN RemoveAt(curves, index + 1) ELSE curves

\* the indices remove_trimming_curve is probed with
IndexArguments == (0 - 1) .. MaxCurves

\* check_and_show_extension_controls on the given curves and face
CheckAndShowExtensionControls(curves, face, radio, vec) ==
    LET pd == ProjectionDir(radio, vec)
        r == logic_check_curve_coverage(curves, face, pd)
    IN  /\ needs_extension' = r
        /\ ext_group_visible' = r
        /\ checked_for' = [done |-> TRUE, curves |-> curves, face |-> face,
                           dir |-> CoverageDirection(face, pd)]

PreSelections == UNION {[1..n -> Curves] : n \in 0..MaxPre}

\* __init__: populate_initial_selection, then start_workflow
TrimInit ==
    /\ \E pre \in PreSelections :
        /\ trimming_curves = pre
        /\ curve_list = pre
        /\ workflow_stage = IF pre # <<>> THEN "face" ELSE "edges"
        /\ selection_gate = IF pre # <<>> THEN "face" ELSE "edge"
        /\ selection_observer = IF pre # <<>> THEN "face" ELSE "edge"
    /\ face_object = "none"
    /\ direction = NoVector
    /\ trim_point = "none"
    /\ use_auto_direction = TRUE
    /\ extension_mode = "boundary"
    /\ extension_distance = DefaultExtensionDistance
    /\ needs_extension = FALSE
    /\ dir_radio = "normal"
    /\ vec_field = "zero"
    /\ ext_radio = "boundary"
    /\ ext_group_visible = FALSE
    /\ dist_text = ""
    /\ apply_enabled = FALSE
    /\ dialog_open = TRUE
    /\ timers = <<>>
    /\ sel_picked = "none"
    /\ document = <<>>
    /\ checked_for = NeverChecked
    /\ trim_calls = 0
    /\ last_trim = NoTrim
    /\ CovIdle
    /\ OverlayInit
    /\ ExtIdle

\* ----------------------------------------- TrimFaceDialogTaskPanel, handlers
\* The session is followed while the dialog is open, up to its MaxTrims-th
\* call of execute_trim.
Running == dialog_open /\ trim_calls < MaxTrims

\* a point of an edge, as the click that selects the edge returns it
EdgeClickPoint == "pFar"

\* EdgeSelectionObserver.addSelection -> on_edge_selected, for an edge that
\* is not in the GUI selection yet; multi: Ctrl or Shift is held
on_edge_selected ==
    \E c \in Curves, multi \in BOOLEAN :
        /\ Running
        /\ selection_observer = "edge"
        /\ Len(trimming_curves) < MaxCurves
        /\ \A i \in DOMAIN trimming_curves : trimming_curves[i] # c
        /\ multi \/ Len(timers) < MaxTimers
        /\ trimming_curves' = Append(trimming_curves, c)
        /\ curve_list' = Append(curve_list, c)
        /\ sel_picked' = EdgeClickPoint
        /\ timers' = IF ~multi THEN Append(timers, "advance_to_face") ELSE timers
        /\ UNCHANGED <<covVars, ovVars, extVars, face_object, direction, trim_point, use_auto_direction,
                       extension_mode, extension_distance, needs_extension,
                       workflow_stage, selection_gate, selection_observer,
                       dir_radio, vec_field, ext_radio, ext_group_visible,
                       dist_text, apply_enabled, dialog_open, document,
                       checked_for, trim_calls, last_trim>>

\* advance_to_face: stop_edge_selection, start_face_selection
advance_to_face ==
    /\ Running
    /\ timers # <<>>
    /\ Head(timers) = "advance_to_face"
    /\ timers' = Tail(timers)
    /\ workflow_stage' = "face"
    /\ apply_enabled' = update_apply_button(curve_list, face_object, trim_point)
    /\ sel_picked' = "none"
    /\ selection_gate' = "face"
    /\ selection_observer' = "face"
    /\ UNCHANGED <<covVars, ovVars, extVars, trimming_curves, face_object, direction, trim_point,
                   use_auto_direction, extension_mode, extension_distance,
                   needs_extension, curve_list, dir_radio, vec_field, ext_radio,
                   ext_group_visible, dist_text, dialog_open, document,
                   checked_for, trim_calls, last_trim>>

\* FaceSelectionObserver.addSelection -> on_face_selected; the click that
\* selects the face stays in the GUI selection
on_face_selected ==
    \E f \in DocumentFaces :
        /\ selection_observer = "face"
        /\ Running
        /\ Len(timers) < MaxTimers
        /\ face_object' = f
        /\ sel_picked' = "pB"
        /\ timers' = Append(timers, "advance_to_point")
        /\ CheckAndShowExtensionControls(trimming_curves, f, dir_radio, vec_field)
        /\ UNCHANGED <<covVars, ovVars, extVars, trimming_curves, direction, trim_point, use_auto_direction,
                       extension_mode, extension_distance, curve_list, workflow_stage,
                       selection_gate, selection_observer, dir_radio, vec_field,
                       ext_radio, dist_text, apply_enabled, dialog_open, document,
                       trim_calls, last_trim>>

\* advance_to_point: stop_face_selection, start_point_selection
advance_to_point ==
    /\ Running
    /\ timers # <<>>
    /\ Head(timers) = "advance_to_point"
    /\ timers' = Tail(timers)
    /\ workflow_stage' = "point"
    /\ apply_enabled' = update_apply_button(curve_list, face_object, trim_point)
    /\ sel_picked' = "none"
    /\ selection_gate' = "none"
    /\ selection_observer' = "point"
    /\ UNCHANGED <<covVars, ovVars, extVars, trimming_curves, face_object, direction, trim_point,
                   use_auto_direction, extension_mode, extension_distance,
                   needs_extension, curve_list, dir_radio, vec_field, ext_radio,
                   ext_group_visible, dist_text, dialog_open, document,
                   checked_for, trim_calls, last_trim>>

\* PointSelectionObserver.addSelection: any selection made in the view
on_point_clicked ==
    \E p \in PickPoints :
        /\ selection_observer = "point"
        /\ Running
        /\ Len(timers) < MaxTimers
        /\ sel_picked' = p
        /\ timers' = Append(timers, "check_picked_point")
        /\ UNCHANGED <<covVars, ovVars, extVars, trimming_curves, face_object, direction, trim_point,
                       use_auto_direction, extension_mode, extension_distance,
                       needs_extension, curve_list, workflow_stage, selection_gate,
                       selection_observer, dir_radio, vec_field, ext_radio,
                       ext_group_visible, dist_text, apply_enabled, dialog_open,
                       document, checked_for, trim_calls, last_trim>>

\* check_picked_point
check_picked_point ==
    /\ Running
    /\ timers # <<>>
    /\ Head(timers) = "check_picked_point"
    /\ trim_point' = IF sel_picked # "none" /\ face_object # "none" THEN sel_picked ELSE trim_point
    /\ timers' = IF sel_picked # "none" /\ face_object # "none"
       THEN Append(Tail(timers), "complete_workflow") ELSE Tail(timers)
    /\ UNCHANGED <<covVars, ovVars, extVars, trimming_curves, face_object, direction, use_auto_direction,
                   extension_mode, extension_distance, needs_extension,
                   curve_list, workflow_stage, selection_gate, selection_observer,
                   dir_radio, vec_field, ext_radio, ext_group_visible, dist_text,
                   apply_enabled, dialog_open, sel_picked, document, checked_for,
                   trim_calls, last_trim>>

\* complete_workflow: stop_point_selection, then the Apply button
complete_workflow ==
    /\ Running
    /\ timers # <<>>
    /\ Head(timers) = "complete_workflow"
    /\ timers' = Tail(timers)
    /\ selection_observer' = "none"
    /\ workflow_stage' = "complete"
    /\ apply_enabled' = update_apply_button(curve_list, face_object, trim_point)
    /\ UNCHANGED <<covVars, ovVars, extVars, trimming_curves, face_object, direction, trim_point,
                   use_auto_direction, extension_mode, extension_distance,
                   needs_extension, curve_list, selection_gate, dir_radio,
                   vec_field, ext_radio, ext_group_visible, dist_text,
                   dialog_open, sel_picked, document, checked_for, trim_calls,
                   last_trim>>

\* on_direction_changed: another direction radio is checked
on_direction_changed ==
    \E r \in DirRadios :
        /\ dialog_open
        /\ Running
        /\ r # dir_radio
        /\ dir_radio' = r
        /\ IF face_object # "none"
           THEN CheckAndShowExtensionControls(trimming_curves, face_object, r, vec_field)
           ELSE UNCHANGED <<needs_extension, ext_group_visible, checked_for>>
        /\ UNCHANGED <<covVars, ovVars, extVars, trimming_curves, face_object, direction, trim_point,
                       use_auto_direction, extension_mode, extension_distance,
                       curve_list, workflow_stage, selection_gate, selection_observer,
                       vec_field, ext_radio, dist_text, apply_enabled, dialog_open,
                       timers, sel_picked, document, trim_calls, last_trim>>

\* _on_vector_field_changed: the X/Y/Z fields are edited (enabled for the
\* custom direction only)
on_vector_field_changed ==
    \E v \in VecFields :
        /\ dialog_open
        /\ Running
        /\ dir_radio = "custom"
        /\ vec_field' = v
        /\ UNCHANGED <<covVars, ovVars, extVars, trimming_curves, face_object, direction, trim_point,
                       use_auto_direction, extension_mode, extension_distance,
                       needs_extension, curve_list, workflow_stage, selection_gate,
                       selection_observer, dir_radio, ext_radio, ext_group_visible,
                       dist_text, apply_enabled, dialog_open, timers, sel_picked,
                       document, checked_for, trim_calls, last_trim>>

\* on_extension_changed: another extension radio is checked
on_extension_changed ==
    \E m \in ExtModes :
        /\ dialog_open
        /\ Running
        /\ ext_group_visible
        /\ m # ext_radio
        /\ ext_radio' = m
        /\ extension_mode' = m
        /\ UNCHANGED <<covVars, ovVars, extVars, trimming_curves, face_object, direction, trim_point,
                       use_auto_direction, extension_distance, needs_extension,
                       curve_list, workflow_stage, selection_gate, selection_observer,
                       dir_radio, vec_field, ext_group_visible, dist_text,
                       apply_enabled, dialog_open, timers, sel_picked, document,
                       checked_for, trim_calls, last_trim>>

\* the distance field is edited (enabled by on_extension_changed for the
\* custom mode); no handler is connected to it
on_distance_edited ==
    \E t \in DistTexts :
        /\ dialog_open
        /\ Running
        /\ ext_group_visible
        /\ ext_radio = "custom"
        /\ t # dist_text
        /\ dist_text' = t
        /\ UNCHANGED <<covVars, ovVars, extVars, trimming_curves, face_object, direction, trim_point,
                       use_auto_direction, extension_mode, extension_distance,
                       needs_extension, curve_list, workflow_stage, selection_gate,
                       selection_observer, dir_radio, vec_field, ext_radio,
                       ext_group_visible, apply_enabled, dialog_open, timers,
                       sel_picked, document, checked_for, trim_calls, last_trim>>

\* on_clear_curves
on_clear_curves ==
    /\ Running
    /\ curve_list' = <<>>
    /\ trimming_curves' = <<>>
    /\ workflow_stage' = "edges"
    /\ sel_picked' = IF workflow_stage # "edges" THEN "none" ELSE sel_picked
    /\ selection_gate' = IF workflow_stage # "edges" THEN "edge" ELSE selection_gate
    /\ selection_observer' = IF workflow_stage # "edges" THEN "edge" ELSE selection_observer
    /\ UNCHANGED <<covVars, ovVars, extVars, face_object, direction, trim_point, use_auto_direction,
                   extension_mode, extension_distance, needs_extension, dir_radio,
                   vec_field, ext_radio, ext_group_visible, dist_text,
                   apply_enabled, dialog_open, timers, document, checked_for,
                   trim_calls, last_trim>>

\* on_remove_curve: row is the current row of the list
on_remove_curve ==
    \E row \in DOMAIN curve_list :
        /\ dialog_open
        /\ Running
        /\ trimming_curves' = remove_trimming_curve(trimming_curves, row - 1)
        /\ curve_list' = RemoveAt(curve_list, row)
        /\ UNCHANGED <<covVars, ovVars, extVars, face_object, direction, trim_point, use_auto_direction,
                       extension_mode, extension_distance, needs_extension,
                       workflow_stage, selection_gate, selection_observer, dir_radio,
                       vec_field, ext_radio, ext_group_visible, dist_text,
                       apply_enabled, dialog_open, timers, sel_picked, document,
                       checked_for, trim_calls, last_trim>>

\* on_clear_face
on_clear_face ==
    /\ Running
    /\ face_object' = "none"
    /\ ext_group_visible' = FALSE
    /\ trim_point' = "none"
    /\ apply_enabled' = update_apply_button(curve_list, "none", "none")
    /\ workflow_stage' = IF workflow_stage \in {"point", "complete"} THEN "face" ELSE workflow_stage
    /\ sel_picked' = IF workflow_stage \in {"point", "complete"} THEN "none" ELSE sel_picked
    /\ selection_gate' = IF workflow_stage \in {"point", "complete"} THEN "face" ELSE selection_gate
    /\ selection_observer' = IF workflow_stage \in {"point", "complete"} THEN "face" ELSE selection_observer
    /\ UNCHANGED <<covVars, ovVars, extVars, trimming_curves, direction, use_auto_direction, extension_mode,
                   extension_distance, needs_extension, curve_list, dir_radio,
                   vec_field, ext_radio, dist_text, dialog_open, timers, document,
                   checked_for, trim_calls, last_trim>>

\* on_clear_point
on_clear_point ==
    /\ Running
    /\ trim_point' = "none"
    /\ apply_enabled' = update_apply_button(curve_list, face_object, "none")
    /\ workflow_stage' = IF workflow_stage = "complete" THEN "point" ELSE workflow_stage
    /\ sel_picked' = IF workflow_stage = "complete" THEN "none" ELSE sel_picked
    /\ selection_gate' = IF workflow_stage = "complete" THEN "none" ELSE selection_gate
    /\ selection_observer' = IF workflow_stage = "complete" THEN "point" ELSE selection_observer
    /\ UNCHANGED <<covVars, ovVars, extVars, trimming_curves, face_object, direction, use_auto_direction,
                   extension_mode, extension_distance, needs_extension,
                   curve_list, dir_radio, vec_field, ext_radio, ext_group_visible,
                   dist_text, dialog_open, timers, document, checked_for,
                   trim_calls, last_trim>>

\* on_cancel
on_cancel ==
    /\ Running
    /\ dialog_open' = FALSE
    /\ UNCHANGED <<covVars, ovVars, extVars, trimming_curves, face_object, direction, trim_point,
                   use_auto_direction, extension_mode, extension_distance,
                   needs_extension, curve_list, workflow_stage, selection_gate,
                   selection_observer, dir_radio, vec_field, ext_radio,
                   ext_group_visible, dist_text, apply_enabled, timers,
                   sel_picked, document, checked_for, trim_calls, last_trim>>

\* reject: cleanup
reject ==
    /\ Running
    /\ selection_observer' = "none"
    /\ selection_gate' = "none"
    /\ dialog_open' = FALSE
    /\ UNCHANGED <<covVars, ovVars, extVars, trimming_curves, face_object, direction, trim_point,
                   use_auto_direction, extension_mode, extension_distance,
                   needs_extension, curve_list, workflow_stage, dir_radio,
                   vec_field, ext_radio, ext_group_visible, dist_text,
                   apply_enabled, timers, sel_picked, document, checked_for,
                   trim_calls, last_trim>>

\* the direction execute_trim gives the trim object
TrimDirection(face, point, auto, dirv) ==
    IF auto \/ dirv = NoVector
    THEN normalAt(face, SurfaceParameter(face, IF point # "none" THEN point ELSE "centre"))
    ELSE dirv

\* what one call of execute_trim was given and what it did
TrimRecord(via, r, auto, dirv, dist, extFail, addFail) ==
    [called |-> TRUE, via |-> via, raised |-> r.raised, msg |-> r.msg,
     curves |-> trimming_curves, face |-> face_object, point |-> trim_point,
     needs |-> needs_extension, mode |-> extension_mode, distance |-> dist,
     radio |-> ext_radio, text |-> dist_text, checked |-> checked_for,
     dir_radio |-> dir_radio, vec |-> vec_field,
     direction |-> TrimDirection(face_object, trim_point, auto, dirv),
     extFail |-> extFail, addFail |-> addFail,
     entries |-> r.entries, created |-> r.created, obj |-> r.obj]

\* the curves get_extended_curves tries to extend: the positions at which the
\* kernel can fail during execute_trim
Extended ==
    IF extension_mode = "none" \/ ~needs_extension THEN {} ELSE DOMAIN trimming_curves

\* on_apply: the extension distance after the capture of the distance field
AppliedDistance ==
    IF ext_radio = "custom" /\ ext_group_visible /\ dist_text # ""
    THEN set_extension_distance(dist_text) ELSE extension_distance

\* on_apply: the direction handed to set_direction
AppliedDirection ==
    IF dir_radio = "normal" THEN direction
    ELSE IF dir_radio = "view" THEN ViewDirection
    ELSE IF vec_field = "dx" THEN "dx"
    ELSE normalAt(face_object, SurfaceParameter(face_object, "centre"))


\* on_apply: extFail and addFail are where the kernel fails during execute_trim
on_apply ==
    \E extFail \in SUBSET Extended : \E addFail \in SUBSET (Extended \ extFail) :
        /\ Running
        /\ apply_enabled
        /\ extension_distance' = AppliedDistance
        /\ use_auto_direction' = (dir_radio = "normal")
        /\ IF dir_radio = "custom" /\ vec_field = "zero" /\ face_object = "none"
           THEN UNCHANGED <<direction, document, trim_calls, last_trim, dialog_open>>
           ELSE LET r == execute_trim(trimming_curves, face_object, AppliedDirection,
                                      dir_radio = "normal", trim_point, extension_mode,
                                      needs_extension, AppliedDistance,
                                      extFail, addFail, FALSE)
                IN  /\ direction' = AppliedDirection
                    /\ document' = document \o r.created
                    /\ trim_calls' = trim_calls + 1
                    /\ last_trim' = TrimRecord("on_apply", r, dir_radio = "normal",
                                               AppliedDirection, AppliedDistance, extFail, addFail)
                    /\ dialog_open' = r.raised
        /\ UNCHANGED <<covVars, ovVars, extVars, trimming_curves, face_object, trim_point, extension_mode,
                       needs_extension, curve_list, workflow_stage, selection_gate,
                       selection_observer, dir_radio, vec_field, ext_radio,
                       ext_group_visible, dist_text, apply_enabled, timers,
                       sel_picked, checked_for>>

\* accept: the extension distance field is not read
accept ==
    \E extFail \in SUBSET Extended : \E addFail \in SUBSET (Extended \ extFail) :
        /\ Running
        /\ use_auto_direction' = (dir_radio = "normal")
        /\ selection_observer' = "none"
        /\ selection_gate' = "none"
        /\ IF dir_radio = "custom" /\ vec_field = "zero"
           THEN UNCHANGED <<direction, document, trim_calls, last_trim, dialog_open>>
           ELSE LET d == IF dir_radio = "normal" THEN direction
                         ELSE IF dir_radio = "view" THEN ViewDirection ELSE "dx"
                    r == execute_trim(trimming_curves, face_object, d,
                                      dir_radio = "normal", trim_point, extension_mode,
                                      needs_extension, extension_distance,
                                      extFail, addFail, FALSE)
                IN  /\ direction' = d
                    /\ document' = document \o r.created
                    /\ trim_calls' = trim_calls + 1
                    /\ last_trim' = TrimRecord("accept", r, dir_radio = "normal", d,
                                               extension_distance, extFail, addFail)
                    /\ dialog_open' = r.raised
        /\ UNCHANGED <<covVars, ovVars, extVars, trimming_curves, face_object, trim_point, extension_mode,
                       extension_distance, needs_extension, curve_list,
                       workflow_stage, dir_radio, vec_field, ext_radio,
                       ext_group_visible, dist_text, apply_enabled, timers,
                       sel_picked, checked_for>>

TrimNext ==
    \/ on_edge_selected
    \/ advance_to_face
    \/ on_face_selected
    \/ advance_to_point
    \/ on_point_clicked
    \/ check_picked_point
    \/ complete_workflow
    \/ on_direction_changed
    \/ on_vector_field_changed
    \/ on_extension_changed
    \/ on_distance_edited
    \/ on_clear_curves
    \/ on_remove_curve
    \/ on_clear_face
    \/ on_clear_point
    \/ on_apply
    \/ on_cancel
    \/ accept
    \/ reject

SpecTrim == TrimInit /\ [][TrimNext]_vars

\* ------------------------------------------- TrimPreviewOverlay, operations
\* the wires of the original curves, as TrimFaceObject.execute takes its tools
Wires(curves) == [i \in DOMAIN curves |-> OriginalEntry(curves[i])]

\* _calculate_trim_preview: the direction used when none is given
PreviewDirection(face, projection_direction) ==
    IF projection_direction = NoVector
    THEN normalAt(face, SurfaceParameter(face, "centre"))
    ELSE projection_direction

\* _create_trim_regions: the sub-faces used, from the cache when the face
\* shape handed in is the very object the overlay holds
SplitFaces(face, curves, dir, sameObject) ==
    IF cached_split_faces.some /\ sameObject /\ last_face_shape = face
    THEN cached_split_faces.faces
    ELSE slice(face, Wires(curves), dir)

\* _create_trim_regions: the region shown in red, <<>> for none
RemoveRegion(face, bf, point) ==
    IF Len(bf) > 1
    THEN IF point # "none"
         THEN LET uv == SurfaceParameter(face, point)
                  k == ScanFaces(bf, 1, uv[1], uv[2])
              IN  IF k = 0 THEN <<>> ELSE <<bf[k]>>
         ELSE <<bf[1]>>
    ELSE <<>>

PreviewFaces == DocumentFaces

PreviewCurves ==
    {c \in UNION {[1..n -> Curves] : n \in 0..MaxCurves} :
        \A i, j \in DOMAIN c : i # j => c[i] # c[j]}

PreviewDirections == {NoVector, ViewDirection}

PreviewPoints == PickPoints \cup {"none"}

\* show_preview.  sameObject: Shape.getElement hands back the face object the
\* overlay already holds in _last_face_shape (the kernel decides).
ShowPreview(face, curves, pd, point, sameObject) ==
    LET dir == PreviewDirection(face, pd)
        sliced == curves # <<>>
        use_cached == sliced /\ cached_split_faces.some /\ sameObject
                      /\ last_face_shape = face
        bf == IF sliced THEN SplitFaces(face, curves, dir, sameObject) ELSE <<>>
        keep_mesh == IF sliced THEN <<>> ELSE <<Rect(ParameterRange(face)[1],
                        ParameterRange(face)[2], ParameterRange(face)[3],
                        ParameterRange(face)[4])>>
        remove_mesh == IF sliced THEN RemoveRegion(face, bf, point) ELSE <<>>
        nothing == keep_mesh = <<>> /\ remove_mesh = <<>>
    IN  /\ sameObject => last_face_shape = face
        /\ cached_split_faces' =
             IF sliced /\ ~use_cached THEN [some |-> TRUE, faces |-> bf]
             ELSE cached_split_faces
        /\ last_face_shape' = IF sliced /\ ~use_cached THEN face ELSE last_face_shape
        /\ split_for' =
             IF sliced /\ ~use_cached THEN [face |-> face, curves |-> curves, dir |-> dir]
             ELSE split_for
        /\ root_separator' = IF nothing THEN root_separator ELSE TRUE
        /\ scene_graph_added' =
             IF nothing THEN (IF root_separator THEN FALSE ELSE scene_graph_added)
             ELSE TRUE
        /\ is_active' = IF nothing THEN is_active ELSE TRUE
        /\ cached_keep_mesh' = IF nothing THEN cached_keep_mesh ELSE keep_mesh
        /\ cached_remove_mesh' = IF nothing THEN cached_remove_mesh ELSE remove_mesh
        /\ last_face_hash' = IF nothing THEN last_face_hash ELSE face
        /\ last_curves_hash' = IF nothing THEN last_curves_hash ELSE curves
        /\ cleaned' = FALSE
        /\ last_preview' =
             [shown |-> TRUE, face |-> face, curves |-> curves, dir |-> dir,
              point |-> point, sliced |-> sliced, use_cached |-> use_cached,
              after_cleanup |-> cleaned,
              key |-> IF use_cached THEN split_for
                      ELSE [face |-> face, curves |-> curves, dir |-> dir],
              bf |-> bf, keep_mesh |-> keep_mesh, remove_mesh |-> remove_mesh]

\* show_preview on any face, curves, direction and point
show_preview ==
    \E face \in PreviewFaces, curves \in PreviewCurves, pd \in PreviewDirections,
       point \in PreviewPoints, sameObject \in BOOLEAN :
        /\ ShowPreview(face, curves, pd, point, sameObject)
        /\ UNCHANGED <<covVars, trimVars, extVars>>

\* hide_preview
HidePreview ==
    /\ scene_graph_added' = IF root_separator THEN FALSE ELSE scene_graph_added
    /\ is_active' = FALSE
    /\ UNCHANGED <<root_separator, cached_keep_mesh,
                   cached_remove_mesh, last_face_hash, last_curves_hash,
                   cached_split_faces, last_face_shape, split_for, cleaned,
                   last_preview>>

hide_preview == HidePreview /\ UNCHANGED <<covVars, trimVars, extVars>>

\* cleanup: hide_preview, _clear_scene_graph, _clear_cache
overlay_cleanup ==
    /\ scene_graph_added' = IF root_separator THEN FALSE ELSE scene_graph_added
    /\ is_active' = FALSE
    /\ root_separator' = FALSE
    /\ cached_keep_mesh' = <<>>
    /\ cached_remove_mesh' = <<>>
    /\ last_face_hash' = "none"
    /\ last_curves_hash' = <<>>
    /\ cleaned' = TRUE
    /\ UNCHANGED <<covVars, trimVars, extVars, cached_split_faces, last_face_shape,
                   split_for, last_preview>>

PreviewInit == OverlayInit /\ TrimIdle /\ CovIdle /\ ExtIdle

PreviewNext == show_preview \/ hide_preview \/ overlay_cleanup

SpecPreview == PreviewInit /\ [][PreviewNext]_vars

\* ------------------------------------ HoverPointCallback and the hover preview
\* What the cursor is over: a point of the face (pA, pB), a point of another
\* object (pFar), or nothing (getObjectInfo returns None).
HoverCursors == {"pA", "pB", "pFar", "void"}

\* _get_current_projection_direction
get_current_projection_direction(radio, vec) ==
    IF radio = "view" THEN ViewDirection
    ELSE IF radio = "custom" /\ vec = "dx" THEN "dx"
    ELSE NoVector

\* The dialog in the point stage with the preview box checked:
\* start_point_selection has installed the hover callback.
HoverInit ==
    /\ \E curves \in PreviewCurves : trimming_curves = curves /\ curve_list = curves
    /\ face_object \in DocumentFaces
    /\ dir_radio \in DirRadios
    /\ direction = NoVector
    /\ trim_point = "none"
    /\ use_auto_direction = TRUE
    /\ extension_mode = "boundary"
    /\ extension_distance = DefaultExtensionDistance
    /\ needs_extension = FALSE
    /\ workflow_stage = "point"
    /\ selection_gate = "none"
    /\ selection_observer = "point"
    /\ vec_field = "zero"
    /\ ext_radio = "boundary"
    /\ ext_group_visible = FALSE
    /\ dist_text = ""
    /\ apply_enabled = FALSE
    /\ dialog_open = TRUE
    /\ timers = <<>>
    /\ sel_picked = "none"
    /\ document = <<>>
    /\ checked_for = NeverChecked
    /\ trim_calls = 0
    /\ last_trim = NoTrim
    /\ CovIdle
    /\ OverlayInit
    /\ hover = [installed |-> TRUE, moved |-> FALSE, cursor |-> "none"]
    /\ call = NoCall
    /\ proj = NoProj /\ checker = NoChecker /\ gizmo = NoGizmo /\ AuxIdle

\* HoverPointCallback.on_mouse_move -> update_hover_preview -> show_preview,
\* run to its end before the next event is handled
on_mouse_move ==
    \E cursor \in HoverCursors, sameObject \in BOOLEAN :
        /\ hover.installed
        /\ hover' = [hover EXCEPT !.moved = TRUE, !.cursor = cursor]
        /\ UNCHANGED <<call, proj, checker, gizmo, auxVars>>
        /\ IF cursor = "void" \/ trimming_curves = <<>> \/ face_object = "none"
           THEN ~sameObject /\ UNCHANGED ovVars
           ELSE ShowPreview(face_object, trimming_curves,
                            get_current_projection_direction(dir_radio, vec_field),
                            cursor, sameObject)
        /\ UNCHANGED <<covVars, trimVars>>

\* on_transparent_preview_changed.  Unchecking hides the preview and removes
\* the callback.  Checking calls _show_transparent_preview, which finds no
\* trim point and unchecks the box again; the callback is installed all the
\* same, the stage being 'point'.
on_transparent_preview_changed ==
    /\ hover' = [hover EXCEPT !.installed = ~hover.installed]
    /\ UNCHANGED <<call, proj, checker, gizmo, auxVars>>
    /\ HidePreview
    /\ UNCHANGED <<covVars, trimVars>>

HoverNext == on_mouse_move \/ on_transparent_preview_changed

SpecHover == HoverInit /\ [][HoverNext]_vars

\* --------------------------------------------- directions with a length
\* A direction is an axis and a length, in units of 1/Unit: length Unit is a
\* unit vector.
Unit == 2

MaxLen == 3

Axes == {"n", ViewDirection}

Directions == {[axis |-> a, len |-> l] : a \in Axes, l \in 1..MaxLen}

\* an argument already of length one: what the caller of a component may
\* pass instead of a longer or shorter vector
UnitArgument(d) == [axis |-> d.axis, len |-> Unit]

\* the normalize() skipped
normalize_skipped(d) == d

\* Vector.normalize()
normalize(d) == [d EXCEPT !.len = Unit]

\* The samples of a curve projected along the vector v as the projector uses
\* it: "closest = point + direction * t" with t = diff.dot(direction) is the
\* foot of the perpendicular only for a unit vector; with another length the
\* residual never falls below the tolerance.
ProjectAlong(curve, face, v) ==
    IF v.len = Unit THEN WorldGeom(curve, face, v.axis)
    ELSE [pts |-> <<NoProjection, NoProjection>>, discretizeOk |-> TRUE, mode |-> "ok"]

\* w.translate(v * d); w.extrude(-v * d * 2) with d twice the diagonal: a tool
\* built along a vector shorter than a unit vector may stop short of the face.
ToolsAlong(tools, v) ==
    IF v.len >= Unit THEN tools
    ELSE [i \in DOMAIN tools |-> [tools[i] EXCEPT !.ext = 0 - 1]]

\* check_curve_coverage given a direction: normalized at l.74 and l.88
CoverageVerdict(curves, face, d) ==
    check_curve_coverage(
        [i \in DOMAIN curves |-> ProjectAlong(curves[i], face, normalize(d))],
        face, TRUE).ret

\* TrimFaceObject.execute given a direction: v.normalize() at l.98
ExecuteAlong(face, tools, uv, d) ==
    LET v == normalize(d) IN
    TrimFaceObject_execute(
        [NoTrimObject EXCEPT !.Face = face, !.Tool = ToolsAlong(tools, v),
                             !.Direction = v.axis, !.PickedPoint = uv])

\* _create_trim_regions given a direction: normalize() at l.300
PreviewAlong(face, curves, point, d) ==
    LET v == normalize(d) IN
    RemoveRegion(face, slice(face, ToolsAlong(Wires(curves), v), v.axis), point)

\* the three components run on one direction
RunComponents(curves, face, point, d) ==
    LET obj == ExecuteAlong(face, Wires(curves), SurfaceParameter(face, point), d) IN
    [verdict |-> CoverageVerdict(curves, face, d),
     faces |-> obj.faces, shape |-> obj.Shape,
     region |-> PreviewAlong(face, curves, point, d)]

NonEmptyCurves == PreviewCurves \ {<<>>}

DirectionInit ==
    /\ call \in {[done |-> FALSE, curves |-> c, face |-> f, point |-> p, d |-> d] :
                    c \in NonEmptyCurves, f \in Faces, p \in HoverCursors \ {"void"},
                    d \in Directions}
    /\ hover = NoHover /\ proj = NoProj /\ checker = NoChecker /\ gizmo = NoGizmo /\ AuxIdle
    /\ CovIdle /\ TrimIdle /\ OverlayInit

\* the components called with the direction as given, and with the same
\* direction normalized by the caller
RunOnDirection ==
    /\ ~call.done
    /\ call' = [call EXCEPT !.done = TRUE] @@
                [given |-> RunComponents(call.curves, call.face, call.point, call.d),
                 unit |-> RunComponents(call.curves, call.face, call.point,
                                        UnitArgument(call.d))]
    /\ UNCHANGED <<covVars, trimVars, ovVars, hover, proj, checker, gizmo, auxVars>>

DirectionNext == RunOnDirection

SpecDirection == DirectionInit /\ [][DirectionNext]_vars

\* ------------------------------------- execute_trim, one call and the document
\* The arguments of one call: the state of TrimFaceLogic, and where the
\* kernel fails while the call runs.
TrimCalls ==
    {[done |-> FALSE, curves |-> c, face |-> f, mode |-> m, needs |-> n,
      extFail |-> e, addFail |-> a, kernelRaises |-> k] :
        c \in PreviewCurves, f \in DocumentFaces \cup {"none"}, m \in ExtModes,
        n \in BOOLEAN, e \in SUBSET (1..MaxCurves), a \in SUBSET (1..MaxCurves),
        k \in BOOLEAN}

RollbackInit ==
    /\ call \in {x \in TrimCalls :
                    /\ x.extFail \cup x.addFail \subseteq DOMAIN x.curves
                    /\ x.extFail \cap x.addFail = {}}
    /\ hover = NoHover /\ proj = NoProj /\ checker = NoChecker /\ gizmo = NoGizmo /\ AuxIdle
    /\ CovIdle /\ TrimIdle /\ OverlayInit

\* one call of execute_trim on a document without trim objects
ExecuteTrimCall ==
    /\ ~call.done
    /\ LET r == execute_trim(call.curves, call.face, NoVector, TRUE, "none",
                             call.mode, call.needs, DefaultExtensionDistance,
                             call.extFail, call.addFail, call.kernelRaises)
       IN  /\ document' = document \o r.created
           /\ call' = [call EXCEPT !.done = TRUE] @@
                       [raised |-> r.raised, msg |-> r.msg, entries |-> r.entries]
    /\ UNCHANGED <<covVars, logicVars, panelVars, guiVars, checked_for, trim_calls,
                   last_trim, ovVars, hover, proj, checker, gizmo, auxVars>>

RollbackNext == ExecuteTrimCall

SpecRollback == RollbackInit /\ [][RollbackNext]_vars

\* ------------------------- _project_curve_to_face_uv, the loop over the samples
max_iterations == 50

GuessSamples == 5

FallbackSamples == 15

\* The residual, the distance of the surface point to the projection line:
\* below tolerance (0.01), below the coarse tolerance (50.0), or beyond.
DistClasses == {"fine", "coarse", "far"}

\* float('inf') is "none"
Rank(d) == CASE d = "fine" -> 0 [] d = "coarse" -> 1 [] d = "far" -> 2 [] OTHER -> 3

\* a loop variable that does not advance
NextIterationStuck(k) == k

\* "for iteration in range(max_iterations)": the next value
NextIteration(k) == k + 1

StartSample(p, k) ==
    [p EXCEPT !.pc = "guess", !.sample = k, !.i = 0, !.iteration = 0, !.j = 0,
              !.dist = "none", !.best_uv = FALSE, !.how = "none", !.left = "none",
              !.result = "pending"]

ProjUnchanged == UNCHANGED <<covVars, trimVars, ovVars, hover, call, checker, gizmo, auxVars>>

ProjInit ==
    /\ \E n \in 1..MaxSamples : proj = StartSample([NoProj EXCEPT !.n = n], 1)
    /\ hover = NoHover
    /\ call = NoCall /\ checker = NoChecker /\ gizmo = NoGizmo /\ AuxIdle
    /\ CovIdle /\ TrimIdle /\ OverlayInit

\* l.266: ParameterRange raises, the outer except starts the sampling fallback
guess_raises ==
    /\ proj.pc = "guess" /\ proj.i = 0
    /\ proj' = [proj EXCEPT !.pc = "fallback"]
    /\ ProjUnchanged

\* l.280-295: one pass of "for i in range(5)", whether the kernel raises or not
initial_guess ==
    /\ proj.pc = "guess" /\ proj.i < GuessSamples
    /\ proj' = [proj EXCEPT !.i = @ + 1]
    /\ ProjUnchanged

\* l.303-306
start_newton ==
    /\ proj.pc = "guess" /\ proj.i = GuessSamples
    /\ proj' = [proj EXCEPT !.pc = "newton", !.iteration = 0]
    /\ ProjUnchanged

\* l.309-381: one pass of the refinement loop.  ev is what surf.value gives
\* (an exception or a residual), grad what the derivatives give.
newton_step ==
    \E ev \in DistClasses \cup {"raise"}, grad \in {"ok", "singular", "raise"} :
        /\ proj.pc = "newton"
        /\ proj' =
             IF ev = "raise" THEN [proj EXCEPT !.pc = "fallback", !.dist = "none"]
             ELSE IF ev = "fine"
             THEN [proj EXCEPT !.pc = "after", !.dist = ev, !.best_uv = TRUE,
                               !.how = "converged", !.left = "break"]
             ELSE IF grad = "ok"
             THEN IF NextIteration(proj.iteration) < max_iterations
                  THEN [proj EXCEPT !.dist = ev, !.iteration = NextIteration(@)]
                  ELSE [proj EXCEPT !.dist = ev, !.pc = "after", !.left = "cap"]
             ELSE [proj EXCEPT !.pc = "after", !.dist = ev, !.left = "break",
                               !.best_uv = (ev = "coarse"),
                               !.how = IF ev = "coarse"
                                       THEN (IF grad = "singular" THEN "singular"
                                             ELSE "derivative")
                                       ELSE "none"]
        /\ ProjUnchanged

\* l.383-393: the last iterate is taken if it is within the coarse tolerance.
\* After a break the point evaluated is the one the loop evaluated last.
after_loop ==
    \E ev \in DistClasses \cup {"raise"} :
        /\ proj.pc = "after"
        /\ proj.left = "break" => ev = proj.dist
        /\ (proj.best_uv \/ proj.iteration = 0) => ev = proj.dist
        /\ proj' =
             IF proj.best_uv \/ proj.iteration = 0 THEN [proj EXCEPT !.pc = "count"]
             ELSE IF ev = "raise" THEN [proj EXCEPT !.pc = "fallback", !.dist = "none"]
             ELSE IF ev \in {"fine", "coarse"}
             THEN [proj EXCEPT !.pc = "count", !.dist = ev, !.best_uv = TRUE,
                               !.how = "cap"]
             ELSE [proj EXCEPT !.pc = "count", !.dist = ev]
        /\ ProjUnchanged

\* l.395-421: one pass of "for i in range(15)"
fallback_step ==
    \E ev \in DistClasses \cup {"raise"} :
        /\ proj.pc = "fallback" /\ proj.j < FallbackSamples
        /\ proj' =
             IF ev # "raise" /\ Rank(ev) < Rank(proj.dist)
             THEN [proj EXCEPT !.j = @ + 1, !.dist = ev, !.best_uv = TRUE,
                               !.how = "fallback"]
             ELSE [proj EXCEPT !.j = @ + 1]
        /\ ProjUnchanged

fallback_done ==
    /\ proj.pc = "fallback" /\ proj.j = FallbackSamples
    /\ proj' = [proj EXCEPT !.pc = "count"]
    /\ ProjUnchanged

\* l.424-454: the sample is counted as successful or failed
count_sample ==
    /\ proj.pc = "count"
    /\ proj' = [proj EXCEPT !.pc = "counted",
                            !.result = IF proj.best_uv THEN "success" ELSE "failed"]
    /\ ProjUnchanged

\* l.246: "for point in sample_points", the next point or the end of the list
next_sample ==
    /\ proj.pc = "counted"
    /\ proj' = IF proj.sample < proj.n THEN StartSample(proj, proj.sample + 1)
               ELSE [proj EXCEPT !.pc = "done"]
    /\ ProjUnchanged

ProjNext ==
    \/ guess_raises
    \/ initial_guess
    \/ start_newton
    \/ newton_step
    \/ after_loop
    \/ fallback_step
    \/ fallback_done
    \/ count_sample
    \/ next_sample

SpecProjector == ProjInit /\ [][ProjNext]_vars

\* The interpreter runs the next statement: the loop takes its next step
\* whenever it has one.
SpecProjectorFair == SpecProjector /\ WF_vars(ProjNext)

\* ------------------------------------- CoverageChecker, the state it keeps
\* Where creating the visualization root fails: nowhere, at
\* coin.SoSeparator(), or at the lookup of the active view's scene graph.
Gui == {"up", "no_coin", "no_view"}

\* clear_visualization: the reference is dropped whatever happens
clear_visualization(c) == [c EXCEPT !.vis_root = "none"]

\* the root created, the failure leaving the visualize flag set
create_visualization_root_keeps_flag(c, gui) ==
    IF ~c.visualize THEN c
    ELSE IF gui = "up" THEN [c EXCEPT !.vis_root = "attached"]
    ELSE IF gui = "no_view" THEN [c EXCEPT !.vis_root = "detached"]
    ELSE c

\* "if self.visualize: try: ... except: self.visualize = False"
create_visualization_root(c, gui) ==
    IF ~c.visualize THEN c
    ELSE IF gui = "up" THEN [c EXCEPT !.vis_root = "attached"]
    ELSE IF gui = "no_view" THEN [c EXCEPT !.vis_root = "detached", !.visualize = FALSE]
    ELSE [c EXCEPT !.visualize = FALSE]

\* "if self.visualize and len(curve_viz_points) > 0: ...
\* self.vis_root.addChild(curve_sep)" raises on a root that is None, and the
\* outer except of the projector returns None.
visualization_raises(c, g) ==
    /\ g.mode \notin {"elem_raises", "proj_raises"}
    /\ c.visualize /\ c.vis_root = "none"
    /\ ProjectLoop(sample_points(g), 1, EmptyAcc).successful > 0

\* the curve as the projector of checker c answers for it
SeenBy(c, g) == IF visualization_raises(c, g) THEN [g EXCEPT !.mode = "proj_raises"] ELSE g

NoRun == [ret |-> FALSE, log |-> <<>>, why |-> "", bounds |-> <<>>]

\* check_curve_coverage on the checker c: the checker it leaves, the verdict
\* and the bounds the projector returned for each curve
checker_check_curve_coverage(c, gui, in) ==
    IF in.curves = <<>> \/ in.face = "none"
    THEN [checker |-> c,
          run |-> [ret |-> FALSE, log |-> <<>>, why |-> "nothing_to_check", bounds |-> <<>>]]
    ELSE LET c1 == create_visualization_root(clear_visualization(c), gui)
             seen == [i \in DOMAIN in.curves |-> SeenBy(c1, in.curves[i])]
             r == check_curve_coverage(seen, in.face, in.faceOk)
         IN  [checker |-> c1,
              run |-> [ret |-> r.ret, log |-> r.log, why |-> r.why,
                       bounds |-> [i \in DOMAIN seen |-> project_curve_to_face_uv(seen[i])]]]

MaxChecks == 2

CheckerInputs ==
    {[curves |-> c, face |-> f, faceOk |-> k] :
        c \in RepSeqs(MaxCovCurves), f \in DocumentFaces \cup {"none"}, k \in BOOLEAN}

\* what is checked in between: nothing, or one curve
OtherInputs == {in \in CheckerInputs : Len(in.curves) <= 1}

CheckerInit ==
    /\ checker = NoChecker
    /\ call \in {[done |-> FALSE, input |-> in, runs |-> 0, first |-> NoRun,
                   last |-> NoRun, saw |-> {}] : in \in CheckerInputs}
    /\ hover = NoHover /\ proj = NoProj /\ gizmo = NoGizmo /\ AuxIdle
    /\ CovIdle /\ TrimIdle /\ OverlayInit

CheckerUnchanged == UNCHANGED <<covVars, trimVars, ovVars, hover, proj, gizmo, auxVars>>

\* a coverage check of the input followed
CheckSame ==
    /\ call.runs < MaxChecks
    /\ \E gui \in Gui :
        LET r == checker_check_curve_coverage(checker, gui, call.input) IN
        /\ checker' = r.checker
        /\ call' = [call EXCEPT !.runs = @ + 1,
                                !.first = IF call.runs = 0 THEN r.run ELSE @,
                                !.last = r.run,
                                !.saw = @ \cup {r.checker.visualize}]
    /\ CheckerUnchanged

\* a coverage check of another input, made in between
CheckOther ==
    /\ call.runs < MaxChecks
    /\ \E gui \in Gui, in \in OtherInputs :
        checker' = checker_check_curve_coverage(checker, gui, in).checker
    /\ UNCHANGED call
    /\ CheckerUnchanged

\* the dialog's cleanup: self.logic.coverage_checker.clear_visualization()
ClearVisualization ==
    /\ call.runs < MaxChecks
    /\ checker' = clear_visualization(checker)
    /\ UNCHANGED call
    /\ CheckerUnchanged

CheckerNext == CheckSame \/ CheckOther \/ ClearVisualization

SpecChecker == CheckerInit /\ [][CheckerNext]_vars

\* ------------------------------------------ the preview and the trim, one input
\* _calculate_trim_preview on an overlay that holds no split yet: the wires
\* are made of the edges of the selected curves as they are
calculate_trim_preview(face, curves, projection_direction, point) ==
    RemoveRegion(face,
                 slice(face, Wires(curves), PreviewDirection(face, projection_direction)),
                 point)

PipelineCalls ==
    {[done |-> FALSE, curves |-> c, face |-> f, d |-> d, point |-> p,
      mode |-> m, needs |-> n] :
        c \in NonEmptyCurves, f \in Faces, d \in Axes, p \in HoverCursors \ {"void"},
        m \in ExtModes, n \in BOOLEAN}

PipelineInit ==
    /\ call \in PipelineCalls
    /\ hover = NoHover /\ proj = NoProj /\ checker = NoChecker /\ gizmo = NoGizmo /\ AuxIdle
    /\ CovIdle /\ TrimIdle /\ OverlayInit

\* the preview computed and the trim executed for the same face, curves,
\* extension settings, direction and point
RunPipelines ==
    /\ ~call.done
    /\ LET r == execute_trim(call.curves, call.face, call.d, FALSE, call.point,
                             call.mode, call.needs, DefaultExtensionDistance,
                             {}, {}, FALSE)
       IN  call' = [call EXCEPT !.done = TRUE] @@
                    [marked |-> calculate_trim_preview(call.face, call.curves, call.d,
                                                       call.point),
                     entries |-> r.entries, faces |-> r.obj.faces,
                     Shape |-> r.obj.Shape]
    /\ UNCHANGED <<covVars, trimVars, ovVars, hover, proj, checker, gizmo, auxVars>>

PipelineNext == RunPipelines

SpecPipeline == PipelineInit /\ [][PipelineNext]_vars

\* ------------------------------------------------------------ VectorGizmo
GizmoAxes == {"x", "y", "z"}

\* a vector of Length < 1e-6
ZeroVector == [axis |-> "none", len |-> 0]

GizmoArguments == {ZeroVector} \cup {[axis |-> a, len |-> l] : a \in GizmoAxes, l \in 1..MaxLen}

\* VectorGizmo.__init__: the Z axis for a zero direction, the switch on
\* SO_SWITCH_ALL
VectorGizmo_init(d) ==
    [NoGizmo EXCEPT
        !.built = TRUE,
        !.direction = normalize(IF d.len = 0 THEN [axis |-> "z", len |-> Unit] ELSE d),
        !.whichChild = "SO_SWITCH_ALL"]

\* set_direction storing the vector it is given
set_direction_as_given(g, d) == [g EXCEPT !.direction = d]

\* VectorGizmo.set_direction
set_direction(g, d) ==
    IF d.len = 0 THEN g
    ELSE [g EXCEPT !.direction = normalize(d)]

\* VectorGizmo.get_direction: a copy of the direction
get_direction(g) == g.direction

\* VectorGizmo.show
show(g) == [g EXCEPT !.whichChild = "SO_SWITCH_ALL"]

\* hide leaving the switch as it is
hide_leaves_switch(g) == g

\* VectorGizmo.hide
hide(g) == [g EXCEPT !.whichChild = "SO_SWITCH_NONE"]

\* VectorGizmo.is_visible
is_visible(g) == g.whichChild = "SO_SWITCH_ALL"

\* VectorGizmo.toggle_visibility
toggle_visibility(g) == IF is_visible(g) THEN hide(g) ELSE show(g)

GizmoInit ==
    /\ gizmo = NoGizmo /\ AuxIdle
    /\ hover = NoHover /\ call = NoCall /\ proj = NoProj /\ checker = NoChecker
    /\ CovIdle /\ TrimIdle /\ OverlayInit

GizmoUnchanged == UNCHANGED <<covVars, trimVars, ovVars, hover, call, proj, checker, auxVars>>

\* gizmo = VectorGizmo(position, direction)
Construct ==
    /\ ~gizmo.built
    /\ \E d \in GizmoArguments :
        gizmo' = [VectorGizmo_init(d) EXCEPT !.op = "init", !.arg = d]
    /\ GizmoUnchanged

\* gizmo.set_direction(direction)
SetDirection ==
    /\ gizmo.built
    /\ \E d \in GizmoArguments :
        gizmo' = [set_direction(gizmo, d) EXCEPT
                    !.op = "set_direction", !.arg = d, !.before = gizmo.direction]
    /\ GizmoUnchanged

\* result = gizmo.get_direction()
GetDirection ==
    /\ gizmo.built
    /\ gizmo' = [gizmo EXCEPT !.op = "get_direction", !.returned = get_direction(gizmo)]
    /\ GizmoUnchanged

\* gizmo.show()
Show ==
    /\ gizmo.built
    /\ gizmo' = [show(gizmo) EXCEPT !.op = "show", !.vis_op = "show",
                                    !.was_visible = is_visible(gizmo)]
    /\ GizmoUnchanged

\* gizmo.hide()
Hide ==
    /\ gizmo.built
    /\ gizmo' = [hide(gizmo) EXCEPT !.op = "hide", !.vis_op = "hide",
                                    !.was_visible = is_visible(gizmo)]
    /\ GizmoUnchanged

\* gizmo.toggle_visibility()
ToggleVisibility ==
    /\ gizmo.built
    /\ gizmo' = [toggle_visibility(gizmo) EXCEPT
                    !.op = "toggle_visibility", !.vis_op = "toggle_visibility",
                    !.was_visible = is_visible(gizmo)]
    /\ GizmoUnchanged

GizmoNext ==
    Construct \/ SetDirection \/ GetDirection \/ Show \/ Hide \/ ToggleVisibility

SpecGizmo == GizmoInit /\ [][GizmoNext]_vars

\* ---------------------------------------------------------- VectorGizmoUI
\* a text float() rejects in one of the fields
BadText == [ok |-> FALSE, axis |-> "none", len |-> 0]

\* what the user may leave in the fields: unusable text, a zero vector (NoText:
\* empty fields or zeros), or a vector along an axis
FieldTexts ==
    {BadText, NoText} \cup
    {[ok |-> TRUE, axis |-> a, len |-> l] : a \in GizmoAxes, l \in 1..MaxLen}

\* f"{vector.x:.3f}" for each component
FormatFields(v) == [ok |-> TRUE, axis |-> v.axis, len |-> v.len]

\* FreeCAD.Vector(float(x_text), float(y_text), float(z_text))
ParseFields(t) == [axis |-> t.axis, len |-> t.len]

\* _get_smart_default: a vector, or None (NoDirection) when the lookup raises
SmartDefaults == {NoDirection} \cup {[axis |-> a, len |-> Unit] : a \in GizmoAxes}

\* the three setText calls made while blockSignals(True) is in force
SignalsBlocked == TRUE

\* _update_fields_from_vector
update_fields_from_vector(u, v) ==
    [u EXCEPT !.fields = FormatFields(v), !.reentered = @ \/ ~SignalsBlocked]

\* _on_field_changed: the helper and the gizmo it leaves.  A text float()
\* rejects raises ValueError before the gizmo is touched; a smart default of
\* None makes set_direction raise, a zero vector makes it return: the gizmo
\* keeps its direction in both cases.
on_field_changed(u, g, default) ==
    IF ~u.fields.ok THEN [ui |-> u, gizmo |-> g]
    ELSE LET typed == ParseFields(u.fields)
             smart == u.smart_default_enabled /\ typed.len = 0
             d == IF smart THEN default ELSE typed
             u1 == IF smart /\ default # NoDirection
                   THEN update_fields_from_vector(u, default) ELSE u
         IN  [ui |-> u1, gizmo |-> IF d = NoDirection THEN g ELSE set_direction(g, d)]

\* the gizmo and the helper constructed: the fields show the gizmo's direction
GizmoUIInit ==
    /\ \E d \in GizmoArguments, s \in BOOLEAN :
        /\ gizmo = VectorGizmo_init(d)
        /\ ui = [update_fields_from_vector(NoUI, get_direction(VectorGizmo_init(d)))
                  EXCEPT !.built = TRUE, !.smart_default_enabled = s, !.op = "init"]
    /\ hover = NoHover /\ call = NoCall /\ proj = NoProj /\ checker = NoChecker
    /\ session = NoSession /\ overlay = NoOverlay
    /\ CovIdle /\ TrimIdle /\ OverlayInit

GizmoUIUnchanged == UNCHANGED <<covVars, trimVars, ovVars, hover, call, proj, checker, session, overlay>>

\* the user finishes editing a field: editingFinished, _on_field_changed
FieldEdited ==
    /\ \E t \in FieldTexts, default \in SmartDefaults :
        LET r == on_field_changed([ui EXCEPT !.fields = t], gizmo, default) IN
        /\ ui' = [r.ui EXCEPT !.op = "field_changed"]
        /\ gizmo' = r.gizmo
    /\ GizmoUIUnchanged

\* _mouse_button_callback, BUTTON1 DOWN
MouseDown ==
    /\ gizmo' = [gizmo EXCEPT !.is_dragging = TRUE]
    /\ UNCHANGED ui
    /\ GizmoUIUnchanged

\* _mouse_button_callback, BUTTON1 UP: _notify_direction_changed calls
\* _on_gizmo_direction_changed
MouseUp ==
    /\ gizmo' = [gizmo EXCEPT !.is_dragging = FALSE]
    /\ ui' = IF gizmo.is_dragging
             THEN [update_fields_from_vector(ui, gizmo.direction) EXCEPT
                     !.op = "gizmo_notified", !.notified = gizmo.direction]
             ELSE ui
    /\ GizmoUIUnchanged

GizmoUINext == FieldEdited \/ MouseDown \/ MouseUp

SpecGizmoUI == GizmoUIInit /\ [][GizmoUINext]_vars

\* ------------------------------------------- the projector, how many samples
\* "for i in range(20)"
ParametricSamples == 20

\* edge_shape.discretize(Number=50)
DiscretizeNumber == 50

\* len(sample_points): the two endpoints, the parametric samples and, when
\* discretize does not raise, the discretized points
sample_count(g) ==
    2 + ParametricSamples + (IF g.discretizeOk THEN DiscretizeNumber ELSE 0)

\* --------------------------------- the projector on a plane, first check
\* Points are integer triples in mm.  A unit direction is written in fifths:
\* <<0,0,5>> is the normal of the plane z = 0, <<3,0,4>> is oblique,
\* <<5,0,0>> and <<4,3,0>> lie in the plane.
PlaneMax == 3

PointsOnPlane == {<<x, y, 0>> : x \in 0..PlaneMax, y \in 0..PlaneMax}

UnitDirections == {<<0, 0, 5>>, <<3, 0, 4>>, <<0, 4, 3>>, <<5, 0, 0>>, <<4, 3, 0>>}

Dot(a, b) == a[1] * b[1] + a[2] * b[2] + a[3] * b[3]

Minus(a, b) == <<a[1] - b[1], a[2] - b[2], a[3] - b[3]>>

\* point + direction * t for the direction in fifths, t a multiple of 5
Along(point, d, t) ==
    <<point[1] + d[1] * (t \div 5), point[2] + d[2] * (t \div 5), point[3] + d[3] * (t \div 5)>>

\* Part.Plane.parameter: the (u,v) of the foot of the perpendicular
PlaneParameter(p) == <<p[1], p[2]>>

\* Part.Plane.value
PlaneValue(uv) == <<uv[1], uv[2], 0>>

\* 25 times the square of "dist": diff = surf_pt - point,
\* t = diff.dot(direction), dist = |surf_pt - (point + direction * t)|
Residual(surf_pt, point, d) ==
    LET diff == Minus(surf_pt, point) IN 25 * Dot(diff, diff) - Dot(diff, d) * Dot(diff, d)

line_length == 1000

\* "if dist < tolerance" with tolerance = 0.01: between integer points the
\* residual is 0 or at least 1/5
WithinTolerance(r) == r = 0

\* "for i in range(5)": test_pt = p1 + (p2 - p1) * i / 4.0, the guess kept is
\* the first of the smallest residual; best < 0 stands for float('inf')
RECURSIVE GuessLoop(_, _, _, _, _)
GuessLoop(i, best, guess, point, d) ==
    IF i >= GuessSamples THEN guess
    ELSE LET test_pt == Along(point, d, (2 * line_length * i) \div 4 - line_length)
             test_uv == PlaneParameter(test_pt)
             dist == Residual(PlaneValue(test_uv), point, d)
         IN  IF best < 0 \/ dist < best
             THEN GuessLoop(i + 1, dist, test_uv, point, d)
             ELSE GuessLoop(i + 1, best, guess, point, d)

\* the initial guess and the residual check of iteration 0
FirstResidualCheck(point, d, mid) ==
    LET guess == GuessLoop(0, 0 - 1, mid, point, d) IN
    [converged |-> WithinTolerance(Residual(PlaneValue(guess), point, d)), uv |-> guess]

PlaneInit ==
    /\ call \in {[done |-> FALSE, point |-> p, d |-> d] :
                    p \in PointsOnPlane, d \in UnitDirections}
    /\ hover = NoHover /\ proj = NoProj /\ checker = NoChecker /\ gizmo = NoGizmo /\ AuxIdle
    /\ CovIdle /\ TrimIdle /\ OverlayInit

\* one sample point of a curve lying on the plane, projected
ProjectOnPlane ==
    /\ ~call.done
    /\ LET r == FirstResidualCheck(call.point, call.d, <<4, 4>>) IN
        call' = [call EXCEPT !.done = TRUE] @@ [converged |-> r.converged, uv |-> r.uv]
    /\ UNCHANGED <<covVars, trimVars, ovVars, hover, proj, checker, gizmo, auxVars>>

PlaneNext == ProjectOnPlane

SpecPlane == PlaneInit /\ [][PlaneNext]_vars

\* ------------------------- the projection direction of the three stages
\* One dialog state is resolved to a direction by the coverage check, by the
\* hover preview and by the trim.  A direction is a record: a vector of the
\* dialog, the face normal evaluated at a parameter, or no direction at all
\* (the stage gave up).  On a planar face the normal is the same at every
\* parameter, on a curved face it is a different vector at every parameter.
VectorTexts == {"zero", "dx", "x only"}

StageVector(v) == [kind |-> "vector", vec |-> v, at |-> <<0, 0>>]

StageNormal(face, uv, curved) ==
    [kind |-> "normal", vec |-> normalAt(face, uv), at |-> IF curved THEN uv ELSE <<0, 0>>]

StageError == [kind |-> "error", vec |-> NoVector, at |-> <<0, 0>>]

MidParameter(face) ==
    LET r == ParameterRange(face) IN <<(r[1] + r[2]) \div 2, (r[3] + r[4]) \div 2>>

\* float(edit.text()) of the three fields: an empty field raises
FloatOfFields(text) == IF text = "x only" THEN "raises" ELSE text

\* float(text) "if text else 0.0" of the three fields
FloatOrZeroOfFields(text) == IF text = "x only" THEN "dx" ELSE text

\* check_and_show_extension_controls picks projection_dir, and
\* CoverageChecker.check_curve_coverage falls back to the normal at the
\* parameter of the centre of mass
coverage_stage_direction(c) ==
    LET parsed == FloatOfFields(c.text)
        projection_dir == IF c.radio = "view" THEN ViewDirection
                          ELSE IF c.radio = "custom" /\ parsed = "dx" THEN "dx"
                          ELSE NoVector
    IN  IF projection_dir # NoVector THEN StageVector(projection_dir)
        ELSE StageNormal(c.face, SurfaceParameter(c.face, "centre"), c.curved)

\* _get_current_projection_direction, and calculate_trim_preview falls back
\* to the normal at the middle of the parameter range
preview_stage_direction(c) ==
    LET parsed == FloatOrZeroOfFields(c.text)
        projection_direction == IF c.radio = "view" THEN ViewDirection
                                ELSE IF c.radio = "custom" /\ parsed = "dx" THEN "dx"
                                ELSE NoVector
    IN  IF projection_direction # NoVector THEN StageVector(projection_direction)
        ELSE StageNormal(c.face, MidParameter(c.face), c.curved)

\* on_apply or accept sets the direction of the logic, execute_trim resolves
\* the automatic direction to the normal at the trim point
trim_stage_direction(c) ==
    IF c.radio = "normal" THEN StageNormal(c.face, SurfaceParameter(c.face, c.point), c.curved)
    ELSE IF c.radio = "view" THEN StageVector(ViewDirection)
    ELSE IF c.via = "on_apply"
         THEN IF FloatOrZeroOfFields(c.text) = "dx" THEN StageVector("dx")
              ELSE StageNormal(c.face, MidParameter(c.face), c.curved)
         ELSE IF FloatOfFields(c.text) = "dx" THEN StageVector("dx")
              ELSE StageError

StageCalls ==
    {[done |-> FALSE, face |-> f, radio |-> r, text |-> t, point |-> p, curved |-> k, via |-> v] :
        f \in Faces, r \in DirRadios, t \in VectorTexts, p \in {"pA", "pB"},
        k \in BOOLEAN, v \in {"on_apply", "accept"}}

StagesInit ==
    /\ call \in StageCalls
    /\ hover = NoHover /\ proj = NoProj /\ checker = NoChecker /\ gizmo = NoGizmo /\ AuxIdle
    /\ CovIdle /\ TrimIdle /\ OverlayInit

\* the three stages run on one dialog state
ResolveStages ==
    /\ ~call.done
    /\ call' = [call EXCEPT !.done = TRUE] @@
                [coverage |-> coverage_stage_direction(call),
                 preview |-> preview_stage_direction(call),
                 trim |-> trim_stage_direction(call)]
    /\ UNCHANGED <<covVars, trimVars, ovVars, hover, proj, checker, gizmo, auxVars>>

StagesNext == ResolveStages

SpecStages == StagesInit /\ [][StagesNext]_vars

\* ------------------------------------- the hover callback of one dialog
\* session follows one dialog for what decides its hover callback: the
\* workflow stage, whether curves, a face and a trim point are held, the
\* preview checkbox, the dialog's reference hover_callback (0 is None, else
\* the number of the HoverPointCallback object) and nodes, the callback
\* nodes that are children of the view's scene graph.  The deferred stage
\* transitions fire in workflow order.
MaxCallbacks == 3

\* HoverPointCallback(self) and install(): a new node goes into the scene
install(s) ==
    [s EXCEPT !.created = s.created + 1, !.hover_callback = s.created + 1,
              !.nodes = s.nodes \cup {s.created + 1}]

\* "if self.hover_callback: self.hover_callback.remove(); self.hover_callback = None"
remove_hover_callback(s) ==
    IF s.hover_callback # 0
    THEN [s EXCEPT !.nodes = s.nodes \ {s.hover_callback}, !.hover_callback = 0]
    ELSE s

\* start_point_selection
start_point_selection(s) ==
    LET s1 == [s EXCEPT !.workflow_stage = "point"] IN
    IF s1.checked THEN install(s1) ELSE s1

\* stop_point_selection
stop_point_selection(s) == remove_hover_callback(s)

\* on_transparent_preview_changed with the checkbox already switched; when
\* the preview cannot be shown _show_transparent_preview unchecks the box,
\* which runs the handler again before the first run goes on
preview_check_changed(s) ==
    IF s.checked
    THEN LET shown == s.curves /\ s.face /\ s.point
             s1 == IF shown THEN s
                   ELSE remove_hover_callback([s EXCEPT !.checked = FALSE])
         IN  IF s1.workflow_stage = "point" /\ s1.hover_callback = 0
             THEN install(s1) ELSE s1
    ELSE remove_hover_callback(s)

SessionInit ==
    /\ \E c \in BOOLEAN :
         session = [NoSession EXCEPT !.open = TRUE, !.checked = c, !.op = "init"]
    /\ ui = NoUI /\ overlay = NoOverlay
    /\ hover = NoHover /\ call = NoCall /\ proj = NoProj /\ checker = NoChecker /\ gizmo = NoGizmo
    /\ CovIdle /\ TrimIdle /\ OverlayInit

SessionUnchanged ==
    UNCHANGED <<covVars, trimVars, ovVars, hover, call, proj, checker, gizmo, ui, overlay>>

CanInstall == session.created < MaxCallbacks

\* on_edge_selected, then advance_to_face
EdgeSelected ==
    /\ session.open /\ session.workflow_stage = "edges"
    /\ session' = [session EXCEPT !.curves = TRUE, !.workflow_stage = "face", !.op = "edge"]
    /\ SessionUnchanged

\* on_face_selected, then advance_to_point
FaceSelected ==
    /\ session.open /\ session.workflow_stage = "face" /\ CanInstall
    /\ session' = [start_point_selection([session EXCEPT !.face = TRUE]) EXCEPT !.op = "face"]
    /\ SessionUnchanged

\* check_picked_point, then complete_workflow
PointPicked ==
    /\ session.open /\ session.workflow_stage = "point" /\ session.face
    /\ session' = [stop_point_selection([session EXCEPT !.point = TRUE])
                     EXCEPT !.workflow_stage = "complete", !.op = "point"]
    /\ SessionUnchanged

\* on_clear_curves: cleanup_selection, start_edge_selection
ClearCurves ==
    /\ session.open
    /\ session' = [session EXCEPT !.curves = FALSE, !.workflow_stage = "edges", !.op = "clear_curves"]
    /\ SessionUnchanged

\* on_clear_face: cleanup_selection, start_face_selection
ClearFace ==
    /\ session.open
    /\ session' = [session EXCEPT !.face = FALSE, !.point = FALSE,
                     !.workflow_stage = IF @ \in {"point", "complete"} THEN "face" ELSE @,
                     !.op = "clear_face"]
    /\ SessionUnchanged

\* on_clear_point: cleanup_selection, start_point_selection
ClearPoint ==
    /\ session.open /\ CanInstall
    /\ session' = [(IF session.workflow_stage = "complete"
                      THEN start_point_selection([session EXCEPT !.point = FALSE])
                      ELSE [session EXCEPT !.point = FALSE]) EXCEPT !.op = "clear_point"]
    /\ SessionUnchanged

\* the preview checkbox is toggled
PreviewToggled ==
    /\ session.open /\ CanInstall
    /\ session' = [preview_check_changed([session EXCEPT !.checked = ~@])
                     EXCEPT !.op = "toggled"]
    /\ SessionUnchanged

\* on_apply after a trim, on_cancel, accept, reject: the dialog closes
CloseDialog ==
    /\ session.open
    /\ \E how \in {"on_apply", "on_cancel", "accept", "reject"} :
         session' = [remove_hover_callback(session) EXCEPT !.open = FALSE, !.op = how]
    /\ SessionUnchanged

SessionNext ==
    \/ EdgeSelected
    \/ FaceSelected
    \/ PointPicked
    \/ ClearCurves
    \/ ClearFace
    \/ ClearPoint
    \/ PreviewToggled
    \/ CloseDialog

SpecSession == SessionInit /\ [][SessionNext]_vars

\* --------------------------- the preview overlay and the view's scene graph
\* overlay follows one TrimPreviewOverlay for its bookkeeping: root_separator
\* (0 is None, else the number of the SoSeparator), the two flags, and nodes,
\* the overlay roots that are children of the view's scene graph.  The view
\* is "up" or "none" (no active view, or the access to it raises) at each
\* call; view_failed remembers that a call has met "none".
MaxRoots == 4

Views == {"up", "none"}

\* what _calculate_trim_preview and _update_preview_mesh come to
Geometries == {"meshes", "nothing", "raises"}

\* _add_to_scene
add_to_scene(o, view) ==
    IF o.root_separator # 0 /\ ~o.scene_graph_added
    THEN IF view = "up"
         THEN [o EXCEPT !.nodes = @ \cup {o.root_separator}, !.scene_graph_added = TRUE]
         ELSE [o EXCEPT !.view_failed = TRUE]
    ELSE o

\* _remove_from_scene
remove_from_scene(o, view) ==
    IF o.root_separator # 0 /\ o.scene_graph_added
    THEN IF view = "up"
         THEN [o EXCEPT !.nodes = @ \ {o.root_separator}, !.scene_graph_added = FALSE]
         ELSE [o EXCEPT !.view_failed = TRUE]
    ELSE o

\* _clear_scene_graph
clear_scene_graph(o) == [o EXCEPT !.root_separator = 0]

\* _ensure_scene_graph
ensure_scene_graph(o) ==
    IF o.root_separator = 0
    THEN [o EXCEPT !.created = @ + 1, !.root_separator = o.created + 1]
    ELSE o

\* TrimPreviewOverlay.hide_preview
overlay_hide_preview(o, view) ==
    [(IF o.scene_graph_added THEN remove_from_scene(o, view) ELSE o) EXCEPT !.is_active = FALSE]

\* TrimPreviewOverlay.show_preview
overlay_show_preview(o, geometry, view) ==
    IF geometry = "nothing"
    THEN IF o.scene_graph_added THEN remove_from_scene(o, view) ELSE o
    ELSE LET o1 == IF o.scene_graph_added THEN remove_from_scene(o, view) ELSE o
             o2 == ensure_scene_graph(clear_scene_graph(o1))
         IN  IF geometry = "raises" THEN overlay_hide_preview(o2, view)
             ELSE [add_to_scene(o2, view) EXCEPT !.is_active = TRUE]

\* TrimPreviewOverlay.cleanup
cleanup_overlay(o, view) == clear_scene_graph(overlay_hide_preview(o, view))

OverlaySceneInit ==
    /\ overlay = [NoOverlay EXCEPT !.built = TRUE, !.op = "init"]
    /\ ui = NoUI /\ session = NoSession
    /\ hover = NoHover /\ call = NoCall /\ proj = NoProj /\ checker = NoChecker /\ gizmo = NoGizmo
    /\ CovIdle /\ TrimIdle /\ OverlayInit

OverlaySceneUnchanged ==
    UNCHANGED <<covVars, trimVars, ovVars, hover, call, proj, checker, gizmo, ui, session>>

ShowPreviewInScene ==
    /\ overlay.created < MaxRoots
    /\ \E geometry \in Geometries, view \in Views :
         overlay' = [overlay_show_preview(overlay, geometry, view) EXCEPT
                       !.op = IF geometry = "meshes" THEN "show" ELSE "show_" \o geometry]
    /\ OverlaySceneUnchanged

HidePreviewInScene ==
    /\ \E view \in Views : overlay' = [overlay_hide_preview(overlay, view) EXCEPT !.op = "hide"]
    /\ OverlaySceneUnchanged

CleanupInScene ==
    /\ \E view \in Views : overlay' = [cleanup_overlay(overlay, view) EXCEPT !.op = "cleanup"]
    /\ OverlaySceneUnchanged

OverlaySceneNext == ShowPreviewInScene \/ HidePreviewInScene \/ CleanupInScene

SpecOverlayScene == OverlaySceneInit /\ [][OverlaySceneNext]_vars

\* ---------------------------------------------------------------- claims
EndpointOutside(o, r) ==
    o.ok /\ (o.u < r[1] \/ o.u > r[2] \/ o.v < r[3] \/ o.v > r[4])

ProjectedU(g) == {g.pts[i].u : i \in {j \in DOMAIN g.pts : g.pts[j].ok}}

ProjectedV(g) == {g.pts[i].v : i \in {j \in DOMAIN g.pts : g.pts[j].ok}}

BoxOverlaps(g, r) ==
    /\ \E a \in ProjectedU(g) : a < r[2]
    /\ \E a \in ProjectedU(g) : a > r[1]
    /\ \E b \in ProjectedV(g) : b < r[4]
    /\ \E b \in ProjectedV(g) : b > r[3]

ClaimAdequate(g, r) ==
    /\ EndpointOutside(g.pts[1], r)
    /\ EndpointOutside(g.pts[Len(g.pts)], r)
    /\ BoxOverlaps(g, r)

\* C1: every curve whose projection succeeds is treated as adequate (no
\* extension asked for it) if and only if both projected endpoints are
\* outside the face's parameter rectangle and the UV bounding box of the
\* projected samples overlaps the rectangle in both u and v.
C1_AdequateIffEndpointsOutsideAndInterior ==
    cv_out.done =>
        \A i \in DOMAIN cv_out.log :
            cv_out.log[i] \in {"adequate", "extension"} =>
                ((cv_out.log[i] = "adequate") <=>
                    ClaimAdequate(cv_in.curves[i], ParameterRange(cv_in.face)))

\* The adequacy rule on the curves both endpoints of which project.
C1_RuleWhenEndpointsProject ==
    cv_out.done =>
        \A i \in DOMAIN cv_out.log :
            LET g == cv_in.curves[i] IN
            (cv_out.log[i] \in {"adequate", "extension"}
                /\ g.pts[1].ok /\ g.pts[Len(g.pts)].ok) =>
                ((cv_out.log[i] = "adequate") <=>
                    ClaimAdequate(g, ParameterRange(cv_in.face)))

\* C7: the checker never answers "no extension needed" when no curve of a
\* non-empty request was actually checked.
C7_NoSuccessWithoutCheckedCurve ==
    (cv_out.done /\ cv_in.curves # <<>> /\ cv_in.face # "none" /\ ~cv_out.ret) =>
        \E i \in DOMAIN cv_out.log : cv_out.log[i] = "adequate"

\* execute_trim got past its argument checks and built the trim object
TrimReached == last_trim.called /\ last_trim.curves # <<>> /\ last_trim.face # "none"

\* TrimFaceObject.execute sliced the face
TrimSliced == TrimReached /\ last_trim.obj.executed \in {"shape_set", "no_match"}

StrictlyInterior(f, u, v) == f.u0 < u /\ u < f.u1 /\ f.v0 < v /\ v < f.v1

\* C2: a split that yields fewer than two sub-faces is an explicit error: the
\* trim raises and no single sub-face becomes the result.
C2_SplitBelowTwoFacesIsAnError ==
    (TrimSliced /\ Len(last_trim.obj.faces) < 2) =>
        (last_trim.raised /\ last_trim.obj.Shape = <<>>)

\* C3: when the picked point lies in no sub-face, or there is no usable
\* picked point, the trim fails explicitly and selects nothing by default.
C3_NoRegionIsAnExplicitFailure ==
    (TrimReached /\ (last_trim.point = "none" \/ last_trim.obj.executed = "no_match")) =>
        last_trim.raised

\* C3, the first half alone: a picked point that lies in no sub-face.
C3_NoMatchIsAnExplicitFailure ==
    (TrimReached /\ last_trim.obj.executed = "no_match") => last_trim.raised

\* C4: a picked point strictly inside sub-face i resolves to sub-face i, and
\* to it alone, whatever the position of i in the scan order.
C4_InteriorPointSelectsItsSubFace ==
    TrimSliced =>
        \A i \in DOMAIN last_trim.obj.faces :
            StrictlyInterior(last_trim.obj.faces[i],
                             last_trim.obj.PickedPoint[1], last_trim.obj.PickedPoint[2])
                => /\ last_trim.obj.executed = "shape_set"
                   /\ last_trim.obj.Shape = <<last_trim.obj.faces[i]>>

C4_Witness ==
    /\ TrimSliced
    /\ Len(last_trim.obj.faces) >= 2
    /\ \E i \in DOMAIN last_trim.obj.faces :
        /\ i >= 2
        /\ StrictlyInterior(last_trim.obj.faces[i],
                            last_trim.obj.PickedPoint[1], last_trim.obj.PickedPoint[2])
        /\ last_trim.obj.Shape = <<last_trim.obj.faces[i]>>

\* C5: the needs_extension that execute_trim consults was computed by a
\* coverage check of exactly the curves, the face and the direction of the trim.
C5_NeedsExtensionIsCurrent ==
    TrimReached =>
        /\ last_trim.checked.done
        /\ last_trim.checked.curves = last_trim.curves
        /\ last_trim.checked.face = last_trim.face
        /\ last_trim.checked.dir = last_trim.direction

\* C6: with extension mode 'none', or with no extension needed, the curves
\* used are the original curves, unchanged, and no object is added for them.
C6_NoExtensionReturnsOriginals ==
    (TrimReached /\ (last_trim.mode = "none" \/ ~last_trim.needs)) =>
        /\ last_trim.entries = [i \in DOMAIN last_trim.curves |-> OriginalEntry(last_trim.curves[i])]
        /\ \A k \in DOMAIN last_trim.created : last_trim.created[k].name # "Extended"

C6_Witness ==
    /\ TrimReached
    /\ last_trim.mode = "boundary"
    /\ ~last_trim.needs
    /\ Len(last_trim.curves) = MaxCurves
    /\ last_trim.entries = [i \in DOMAIN last_trim.curves |-> OriginalEntry(last_trim.curves[i])]

\* C8: a failed extension never aborts the trim: there is one entry per
\* curve, in the order of the curves, the entry of a curve whose extension
\* failed carries the original geometry, and execute_trim goes on.
C8_ExtensionFailureKeepsTheCurve ==
    TrimReached =>
        /\ Len(last_trim.entries) = Len(last_trim.curves)
        /\ \A i \in DOMAIN last_trim.entries :
            /\ last_trim.entries[i].curve = last_trim.curves[i]
            /\ i \in last_trim.extFail \cup last_trim.addFail => last_trim.entries[i].ext = 0
        /\ ~last_trim.raised
        /\ last_trim.obj.Tool = last_trim.entries

C8_Witness ==
    /\ TrimReached
    /\ Len(last_trim.curves) = MaxCurves
    /\ last_trim.obj.Tool = last_trim.entries
    /\ ~last_trim.raised
    /\ \E i \in last_trim.extFail \cup last_trim.addFail :
        /\ last_trim.entries[i].curve = last_trim.curves[i]
        /\ last_trim.entries[i].ext = 0
    /\ \E j \in DOMAIN last_trim.entries :
        j \notin last_trim.extFail \cup last_trim.addFail /\ last_trim.entries[j].ext > 0

\* the curves of the last trim that were extended, and did not fail
ExtendedOk ==
    {i \in DOMAIN last_trim.entries :
        last_trim.entries[i].obj = "extended" /\ i \notin last_trim.extFail}

\* C9: an extended curve is extended by half the diagonal of the bounding box
\* of the face in mode 'boundary', and by exactly the distance the user
\* entered in mode 'custom', never by the 10.0 default.
C9_ExtensionLengthFollowsTheMode ==
    (TrimReached /\ last_trim.needs) =>
        /\ last_trim.mode = "boundary" =>
            \A i \in ExtendedOk : 2 * last_trim.entries[i].ext = FaceDiagonal(last_trim.face)
        /\ (last_trim.mode = "custom" /\ last_trim.radio = "custom" /\ last_trim.text # "") =>
            \A i \in ExtendedOk :
                IF ParsesAsFloat(last_trim.text)
                THEN last_trim.entries[i].ext = FloatOf(last_trim.text)
                ELSE last_trim.entries[i].ext # DefaultExtensionDistance

\* C9 for the trims started with the Apply button on a distance that parses.
C9_WhenAppliedWithANumber ==
    (last_trim.via = "on_apply" /\ (last_trim.mode = "custom" => ParsesAsFloat(last_trim.text)))
        => C9_ExtensionLengthFollowsTheMode

C11_PreviewIsForTheLastCursorPosition ==
    (hover.moved /\ scene_graph_added) => last_preview.point = hover.cursor

\* C12: a zero-length projection direction is rejected: no trim is executed
\* on a custom direction of length zero.
C12_ZeroDirectionIsRejected ==
    last_trim.called => ~(last_trim.dir_radio = "custom" /\ last_trim.vec = "zero")

\* C12 for accept alone, which raises on the zero vector.
C12_AcceptRejectsTheZeroDirection ==
    (last_trim.called /\ last_trim.via = "accept") =>
        ~(last_trim.dir_radio = "custom" /\ last_trim.vec = "zero")

\* C13: a direction that is neither of length one nor of length zero gives
\* the same coverage verdict, the same split and the same selected sub-face
\* as the same direction passed already normalized.
C13_NonUnitDirectionGivesTheSameResults ==
    call.done => call.given = call.unit

C13_Witness ==
    /\ call.done
    /\ call.d.len # Unit
    /\ call.given.shape # <<>>
    /\ call.given.region # <<>>
    /\ call.given.verdict
    /\ call.given = call.unit

\* C14: nothing created for a trim request outlives its failure: when
\* execute_trim raises, the document holds no object of the failed request.
C14_NothingOutlivesAFailedTrim ==
    (call.done /\ call.raised) => document = <<>>

\* C14 for the failures of the two precondition checks.
C14_PreconditionFailureCreatesNothing ==
    (call.done /\ (call.curves = <<>> \/ call.face = "none")) =>
        (call.raised /\ document = <<>>)

\* C15: the projection of a curve always terminates: the loop over the
\* samples reaches its end.
C15_ProjectionTerminates == <>(proj.pc = "done")

\* C15, the counts: at most 50 refinement passes, 5 initial-guess samples and
\* 15 fallback samples for one sample point.
C15_LoopsAreCapped ==
    /\ proj.iteration < max_iterations
    /\ proj.i <= GuessSamples
    /\ proj.j <= FallbackSamples
    /\ proj.sample <= proj.n

C15_Witness ==
    /\ proj.pc = "done"
    /\ proj.iteration = max_iterations - 1
    /\ proj.left = "cap"
    /\ proj.sample = MaxSamples

\* C18: a sample is counted as successful only with a residual below 0.01
\* on convergence, or below 50 when the loop stopped on a singular system, a
\* derivative failure or the iteration cap; on every other path, the
\* sampling fallback included, a sample beyond the coarse tolerance is
\* counted as failed.
C18_SuccessOnlyWithinTolerance ==
    (proj.pc = "counted" /\ proj.result = "success") =>
        \/ proj.how = "converged" /\ proj.dist = "fine"
        \/ proj.how # "converged" /\ proj.dist \in {"fine", "coarse"}

\* C18 on the paths that do not go through the sampling fallback.
C18_RefinementRespectsTheTolerances ==
    (proj.pc = "counted" /\ proj.result = "success" /\ proj.how # "fallback") =>
        \/ proj.how = "converged" /\ proj.dist = "fine"
        \/ proj.how \in {"singular", "derivative", "cap"} /\ proj.dist \in {"fine", "coarse"}


\* C16: two coverage projections of the same curves, face and direction return
\* the same (u,v) bounds and the same verdict, whatever was checked in between
\* and whatever the checker's flags and visualization root have become.
C16_ProjectorIsDeterministic == call.runs >= 2 => call.last = call.first

\* the input was checked twice, once with the visualization on and once with
\* it off, and the projector returned bounds for one of its curves
C16_Witness ==
    /\ call.runs >= 2 /\ call.saw = {TRUE, FALSE}
    /\ \E i \in DOMAIN call.first.bounds : call.first.bounds[i].some


\* C17: for the same face, curves, extension settings, direction and point,
\* the sub-face the preview marks is the sub-face the trim selects among the
\* sub-faces it cut the face into.
C17_PreviewMarksTheSubFaceTheTrimSelects ==
    (call.done /\ Len(call.faces) > 1) => call.marked = call.Shape

\* C17, the part that holds: when the trim uses the curves as they are (no
\* extension applied), the preview marks the sub-face the trim selects.
C17_SameSubFaceWithoutExtension ==
    (call.done /\ Len(call.faces) > 1 /\ \A i \in DOMAIN call.entries : ~IsExtended(call.entries[i]))
        => call.marked = call.Shape


\* C19: the visibility of the gizmo follows the last visibility operation:
\* hidden after hide(), visible after show(), and the opposite of what it was
\* after toggle_visibility(), whatever was called before or since.
C19_VisibilityFollowsTheLastOperation ==
    gizmo.built =>
        /\ gizmo.vis_op = "hide" => ~is_visible(gizmo)
        /\ gizmo.vis_op = "show" => is_visible(gizmo)
        /\ gizmo.vis_op = "toggle_visibility" => (is_visible(gizmo) = ~gizmo.was_visible)

\* the gizmo was hidden and the direction was set afterwards
C19_Witness ==
    gizmo.built /\ gizmo.vis_op = "hide" /\ gizmo.op = "set_direction" /\ ~is_visible(gizmo)

\* C20: the direction of the gizmo is a unit vector in every state: the
\* constructor and set_direction normalize, get_direction returns that
\* vector, and set_direction with a zero-length vector changes nothing.
C20_DirectionIsAUnitVector ==
    gizmo.built =>
        /\ gizmo.direction.len = Unit
        /\ gizmo.op = "get_direction" => gizmo.returned = gizmo.direction
        /\ (gizmo.op = "set_direction" /\ gizmo.arg.len = 0) =>
                gizmo.direction = gizmo.before
        /\ (gizmo.op = "set_direction" /\ gizmo.arg.len > 0) =>
                gizmo.direction = [axis |-> gizmo.arg.axis, len |-> Unit]
        /\ gizmo.op = "init" =>
                gizmo.direction.axis = IF gizmo.arg.len = 0 THEN "z" ELSE gizmo.arg.axis

\* set_direction was called with a zero-length vector on a gizmo pointing
\* along x
C20_Witness ==
    /\ gizmo.built /\ gizmo.op = "set_direction" /\ gizmo.arg = ZeroVector
    /\ gizmo.before = [axis |-> "x", len |-> Unit]


\* C21: after a field edit has been handled the gizmo direction is the
\* normalization of the vector the fields show, after the gizmo notified a
\* change the fields show its direction, and the helper's own field writes
\* never run the field-changed handler again.
C21_FieldsAndGizmoStaySynchronized ==
    ui.built =>
        /\ ui.op = "field_changed" =>
                ui.fields.ok /\ gizmo.direction = normalize(ParseFields(ui.fields))
        /\ ui.op = "gizmo_notified" =>
                ui.fields.ok /\ ParseFields(ui.fields) = gizmo.direction
        /\ ~ui.reentered

\* C21, the part that holds: the same, for a field edit that leaves a
\* non-zero vector float() accepts.
C21_SynchronizedForANonZeroVector ==
    ui.built =>
        /\ (ui.op = "field_changed" /\ ui.fields.ok /\ ui.fields.len > 0) =>
                gizmo.direction = normalize(ParseFields(ui.fields))
        /\ ui.op = "gizmo_notified" =>
                ui.fields.ok /\ ParseFields(ui.fields) = gizmo.direction
        /\ ~ui.reentered


\* C22: whenever the projector returns bounds for a curve that was checked,
\* both endpoints of the curve projected, and the start and end (u,v) are the
\* projections of the first-parameter and the last-parameter point.
C22_StartAndEndAreTheEndpoints ==
    cv_out.done =>
        \A i \in 1..Len(cv_out.log) :
            LET g == cv_in.curves[i]
                b == project_curve_to_face_uv(g)
                first == g.pts[1]
                last == g.pts[Len(g.pts)]
            IN  b.some =>
                    /\ first.ok /\ last.ok
                    /\ <<b.start_u, b.start_v>> = <<first.u, first.v>>
                    /\ <<b.end_u, b.end_v>> = <<last.u, last.v>>

\* C22, the part that holds: when both endpoints project, the start and end
\* (u,v) are their projections.
C22_EndpointsUsedWhenBothProject ==
    cv_out.done =>
        \A i \in 1..Len(cv_out.log) :
            LET g == cv_in.curves[i]
                b == project_curve_to_face_uv(g)
                first == g.pts[1]
                last == g.pts[Len(g.pts)]
            IN  (b.some /\ first.ok /\ last.ok) =>
                    /\ <<b.start_u, b.start_v>> = <<first.u, first.v>>
                    /\ <<b.end_u, b.end_v>> = <<last.u, last.v>>


\* C24: every curve the coverage check hands to the projector has at least 50
\* sample points projected, the two endpoints included, also when discretize
\* fails.
C24_AtLeastFiftySamples ==
    cv_out.done =>
        \A i \in 1..Len(cv_out.log) :
            cv_in.curves[i].mode # "proj_raises" => sample_count(cv_in.curves[i]) >= 50

\* C24, the part that holds: at least 50 samples whenever discretize succeeds
C24_FiftySamplesWhenDiscretizeSucceeds ==
    cv_out.done =>
        \A i \in 1..Len(cv_out.log) :
            (cv_in.curves[i].mode # "proj_raises" /\ cv_in.curves[i].discretizeOk)
                => sample_count(cv_in.curves[i]) >= 50


\* C23: for a point lying on a planar surface the residual check of iteration
\* 0 succeeds and the (u,v) returned is that of the point itself, for every
\* projection direction.
C23_PointOnPlaneConvergesAtOnce ==
    call.done => call.converged /\ call.uv = PlaneParameter(call.point)

\* C23, the part that holds: the same for every direction that does not lie
\* in the plane.
C23_ConvergesAtOnceAcrossThePlane ==
    (call.done /\ call.d[3] # 0) => call.converged /\ call.uv = PlaneParameter(call.point)


\* C25: for one dialog state the coverage check, the hover preview and the
\* trim all use the same projection direction.
C25_ThreeStagesUseOneDirection ==
    call.done => (call.coverage = call.preview /\ call.preview = call.trim)

\* The three stages agree on a planar face when the trim is made by Apply
\* and no vector field is empty.
C25_OneDirectionOnAPlanarFaceByApply ==
    (call.done /\ ~call.curved /\ call.via = "on_apply" /\ call.text # "x only")
        => (call.coverage = call.preview /\ call.preview = call.trim)


\* C26: the workflow stage is consistent with the collected data: stage
\* 'face' has at least one trimming curve, stages 'point' and 'complete'
\* have a face, stage 'complete' has a trim point.
C26_StageIsConsistentWithTheData ==
    /\ workflow_stage = "face" => Len(trimming_curves) >= 1
    /\ workflow_stage \in {"point", "complete"} => face_object # "none"
    /\ workflow_stage = "complete" => trim_point # "none"

\* The stage never runs ahead of the data in the part a deferred transition
\* cannot break: no trim point is ever held without a face.
C26_NoTrimPointWithoutAFace == trim_point # "none" => face_object # "none"

\* C27: the Apply button is enabled only while at least one curve, a face
\* and a trim point are all set.
C27_ApplyEnabledOnlyWhenComplete ==
    apply_enabled => (Len(curve_list) > 0 /\ face_object # "none" /\ trim_point # "none")

\* An enabled Apply button always has a face and a trim point behind it.
C27_ApplyEnabledHasFaceAndPoint ==
    apply_enabled => (face_object # "none" /\ trim_point # "none")


C28_OneHoverCallbackAndNoneAfterClose ==
    /\ Cardinality(session.nodes) <= 1
    /\ session.nodes \subseteq {session.hover_callback}
    /\ ~session.open /\ session.op # "none" => session.nodes = {}

\* The callback the dialog refers to is always installed.
C28_ReferencedCallbackIsInstalled ==
    session.hover_callback # 0 => session.hover_callback \in session.nodes


\* C30: scene_graph_added is true exactly when the overlay's current root
\* node is a child of the scene graph, is_active is true only while a
\* preview is displayed, and after hide_preview or cleanup no overlay node
\* remains in the scene graph.
C30_OverlayBookkeepingIsExact ==
    /\ overlay.scene_graph_added <=> (overlay.root_separator \in overlay.nodes)
    /\ overlay.is_active => overlay.nodes # {}
    /\ overlay.op \in {"hide", "cleanup"} => overlay.nodes = {}

\* While the view has answered every call: the flag tells whether the root
\* is in the scene, the scene holds no other overlay node, and hide_preview
\* and cleanup leave none.
C30_ExactWhileTheViewAnswers ==
    ~overlay.view_failed =>
        /\ overlay.scene_graph_added <=> (overlay.root_separator \in overlay.nodes)
        /\ overlay.nodes \subseteq {overlay.root_separator}
        /\ overlay.op \in {"hide", "cleanup"} => overlay.nodes = {}

====
